---- MODULE Spec2Model ----
(***************************************************************************)
(* Verification model of the experiment manager of COSIMA/om3-scripts.     *)
(*                                                                         *)
(* Three revisions of the manager live side by side in the repository:     *)
(*   "v1"  src/expts_manager/Expts_manager.py                              *)
(*   "v2"  src/expts_manager/experiment_manager_tool/                      *)
(*   "v3"  src/expts_manager/access-om-expts/access_om_expts/              *)
(* The variable impl says which revision a behaviour runs.                 *)
(*                                                                         *)
(* The module holds three state machines over disjoint groups of           *)
(* variables:                                                              *)
(*   SpecExpand  the ChangeSet expander (_cal_num_expts,                   *)
(*               _generate_individual_dicts, _generate_combined_dicts)     *)
(*   SpecPbs     the duplicate check and the submission of one path        *)
(*               (_check_duplicated_jobs, _start_experiment_runs)          *)
(*   SpecCross / SpecRerun                                                 *)
(*               the driver walking the (group, file) units of a block     *)
(*               (setup_expts and its callers)                             *)
(***************************************************************************)
EXTENDS Integers, Sequences, FiniteSets, TLC

VARIABLES
    impl,                    \* revision of the manager: "v1", "v2", "v3"
    \* ---- expander ----
    combo,                   \* k_sub.endswith(combo_suffix)
    name_dict,               \* the group: ordered <<[k, v]>>, v a tagged value
    num_expts,               \* self.num_expts
    param_dict_change_list,  \* self.param_dict_change_list / list_of_param_dict_change
    append_group_list,       \* self.append_group_list / list_of_groupname
    epc,                     \* "group" -> "counted" -> "expanded" | "error"
    err,                     \* the exception that ended the expansion, or "none"
    \* ---- duplicate check and submission of one path ----
    pbs_jobs,                \* the records parsed from `qstat -f`
    path,                    \* the experiment path the decision is about
    check_duplicate_jobs,    \* self.check_duplicate_jobs
    nruns,                   \* self.nruns / num_runs
    doneruns,                \* number of archive/output[0-9][0-9][0-9]* directories
    duplicated_bool,         \* result of the duplicate check
    calls,                   \* the external commands run so far, in order
    ppc,                     \* "query" -> "check" -> "commit" -> "start" -> "done"
    \* ---- driver ----
    cb,                      \* self.tag_model == "cb": the block is a cross-file block
    block,                   \* the units of the block, in declaration order
    expt_names,              \* self.expt_names: the path each experiment index names
    pos,                     \* the unit the loop over the groups is at
    idx,                     \* the experiment the loop of setup_expts is at
    tmp_count,               \* self.tmp_count
    group_count,             \* self.group_count
    dpc,                     \* "scan", "clone", "metadata", "update", "submit", "done", "aborted"
    exists,                  \* the experiment paths that exist on disk
    active,                  \* the experiment paths with a job that is not F or S
    clones,                  \* payu clone calls, per path
    metadata_updates,        \* metadata updates, per experiment
    jobname_updates,         \* jobname updates, per experiment
    decisions,               \* duplicate check and submission steps, per experiment
    submits,                 \* payu run calls, per path
    pass_submits,            \* payu run calls, per experiment of the current pass
    applied,                 \* <<unit, experiment>> whose ChangeSet was written
    decided_at,              \* the unit at which an experiment's submission was decided
    \* ---- user-defined directory names against the experiments of a group ----
    vcb,                     \* the block is a cross-file block
    vblock,                  \* the groups of the block: <<[nd, combo]>>
    dirs_len,                \* len() of the user-defined list of directory names
    vpos,                    \* the group being processed
    vchanges,                \* the ChangeSets generated for that group
    vcloned,                 \* <<group, experiment>> cloned
    vwritten,                \* <<group, experiment>> whose configuration was written
    verr,                    \* the exception that ended the run, or "none"
    vpc,                     \* "generate", "setup", "done", "failed"
    \* ---- the names of the experiments ----
    ngroup,                  \* the group, its values typed
    ncombo,                  \* the group is a combo group
    nchanges,                \* self.param_dict_change_list
    nuser,                   \* self.expt_names: [given, names]
    nidx,                    \* experiments named so far
    nnames,                  \* the names, in order
    \* ---- failures of the external commands ----
    fault,                   \* the command that failed: "none", "clone", "submit"
    \* ---- a run of several submission decisions ----
    squeue,                  \* the job records the scheduler holds
    snap,                    \* pbs_jobs: the dump parsed at the last query
    stodo,                   \* the experiment paths still to be decided, in order
    scur,                    \* the path the decision is about
    snruns,                  \* self.nruns
    slog,                    \* the qstat and payu run commands so far: [op, at]
    spc,                     \* "query", "decide", "done"
    \* ---- the parser of the scheduler dump ----
    pbs_job_file,            \* the lines of the dump
    line_no,                 \* lines read so far
    parsed_jobs,             \* pbs_jobs: job id -> (key -> value)
    current_key,             \* the key of the pair that is open, or NoKey
    current_value,           \* its value so far
    job_id,                  \* the job the lines belong to; "returned" at the end
    \* ---- _generate_combined_dicts on nested values ----
    nested_src,              \* the value of the key as the user gave it
    nested_dict,             \* name_dict[key], rebound by every pass of the loop
    nested_n,                \* num_expts
    nested_i,                \* passes of the loop done
    nested_changes,          \* the value of the key in each ChangeSet so far
    nested_err,              \* "none", "done", or the exception raised
    \* ---- update_config_entries ----
    cfg_trace,               \* base as given, then base after each call
    cfg_change,              \* change
    cfg_err,                 \* "none" or the exception raised
    \* ---- the MOM_input ChangeSet ----
    mom_files,               \* MOM_input and MOM_override of the experiment
    mom_input,               \* MOM_input as it was cloned
    mom_writes,              \* the calls of writefile_MOM_input so far
    \* ---- the namelist ChangeSet ----
    nml_file,                \* the lines of the namelist file of the experiment
    nml_cloned,              \* the file as it was cloned
    nml_change,              \* the ChangeSet param_dict
    nml_patch,               \* patch_dict[nml_group]
    nml_done,                \* the update has run
    \* ---- the restart symlink ----
    lnk_dest,                \* what lies at dest
    lnk_before,              \* what lay there before the last call
    lnk_start,               \* startfrom_str
    lnk_force,               \* force_restart
    lnk_ctrl,                \* the restart directory of the control experiment exists
    lnk_ops,                 \* the file operations of the last call
    lnk_calls,               \* calls so far
    lnk_err,                 \* "none" or the exception raised
    \* ---- the metadata description ----
    md_restart,              \* restartpath
    md_trace,                \* the description as cloned, then after each update
    \* ---- a ChangeSet under its appliers ----
    cs_kind,                 \* the file of the block
    cs_emitted,              \* the ChangeSet as the expander emitted it
    cs_held,                 \* the ChangeSet in the list of the driver
    cs_expt,                 \* the name of the experiment
    cs_file,                 \* config.yaml of the experiment
    cs_applied,              \* the file has been updated
    \* ---- the keys of a parameter block ----
    gv_block,                \* k, the name of the block
    gv_keys,                 \* the keys of the block, in order
    gv_names,                \* the list that a key of names holds
    gv_pos,                  \* keys gone through
    gv_previous_key,         \* previous_key, <<>> for None
    gv_out,                  \* what each key gave: skipped, or expanded into named experiments
    gv_err,                  \* "none" or the exception raised
    \* ---- the run of the control experiment ----
    ct_check,                \* check_duplicate_jobs
    ct_dirty,                \* the repository of the control experiment has changes to commit
    ct_work,                 \* work is the link a failed job left
    ct_nruns,                \* ctrl_nruns / nruns
    ct_done,                 \* output directories in archive
    ct_jobs,                 \* pbs_jobs
    ct_dup,                  \* duplicated_bool
    ct_calls,                \* the external calls made, in order
    ct_pc                    \* the statement the run is at

expVars == <<combo, name_dict, num_expts, param_dict_change_list,
             append_group_list, epc, err>>

pbsVars == <<pbs_jobs, path, check_duplicate_jobs, nruns, doneruns,
             duplicated_bool, calls, ppc>>

drvVars == <<cb, block, expt_names, pos, idx, tmp_count, group_count, dpc,
             exists, active, clones, metadata_updates, jobname_updates,
             decisions, submits, pass_submits, applied, decided_at>>

valVars == <<vcb, vblock, dirs_len, vpos, vchanges, vcloned, vwritten, verr, vpc>>

namVars == <<ngroup, ncombo, nchanges, nuser, nidx, nnames>>

fltVars == <<fault>>

snpVars == <<squeue, snap, stodo, scur, snruns, slog, spc>>

prsVars == <<pbs_job_file, line_no, parsed_jobs, current_key, current_value, job_id>>

ctVars == <<ct_check, ct_dirty, ct_work, ct_nruns, ct_done, ct_jobs, ct_dup, ct_calls, ct_pc>>

gvVars == <<gv_block, gv_keys, gv_names, gv_pos, gv_previous_key, gv_out, gv_err>>

csVars == <<cs_kind, cs_emitted, cs_held, cs_expt, cs_file, cs_applied>>

mdVars == <<md_restart, md_trace>>

lnkVars == <<lnk_dest, lnk_before, lnk_start, lnk_force, lnk_ctrl, lnk_ops, lnk_calls, lnk_err>>

nmlVars == <<nml_file, nml_cloned, nml_change, nml_patch, nml_done>>

momVars == <<mom_files, mom_input, mom_writes>>

cfgVars == <<cfg_trace, cfg_change, cfg_err>>

nstVars == <<nested_src, nested_dict, nested_n, nested_i, nested_changes, nested_err>>

moreVars == <<valVars, namVars, fltVars, snpVars, prsVars, nstVars, cfgVars, momVars, nmlVars, lnkVars, mdVars, csVars, gvVars, ctVars>>

vars == <<impl, expVars, pbsVars, drvVars, moreVars>>

RestValidate ==
    /\ vcb = FALSE /\ vblock = <<>> /\ dirs_len = 0 /\ vpos = 0
    /\ vchanges = <<>> /\ vcloned = {} /\ vwritten = {}
    /\ verr = "none" /\ vpc = "rest"

RestNaming ==
    /\ ngroup = <<>> /\ ncombo = FALSE /\ nchanges = <<>>
    /\ nuser = [given |-> FALSE, names |-> <<>>] /\ nidx = 0 /\ nnames = <<>>

RestFault == fault = "none"

RestCtrl ==
    /\ ct_check = FALSE /\ ct_dirty = FALSE /\ ct_work = FALSE /\ ct_nruns = 0
    /\ ct_done = 0 /\ ct_jobs = {} /\ ct_dup = FALSE /\ ct_calls = <<>> /\ ct_pc = "rest"

RestGroups ==
    /\ gv_block = "rest" /\ gv_keys = <<>> /\ gv_names = <<>> /\ gv_pos = 0
    /\ gv_previous_key = <<>> /\ gv_out = <<>> /\ gv_err = "rest"

RestApply ==
    /\ cs_kind = "rest" /\ cs_emitted = <<>> /\ cs_held = <<>> /\ cs_expt = ""
    /\ cs_file = <<>> /\ cs_applied = TRUE

RestDesc == md_restart = "rest" /\ md_trace = <<>>

RestLink ==
    /\ lnk_dest = <<>> /\ lnk_before = <<>> /\ lnk_start = "rest" /\ lnk_force = FALSE
    /\ lnk_ctrl = FALSE /\ lnk_ops = <<>> /\ lnk_calls = 0 /\ lnk_err = "rest"

RestNml ==
    /\ nml_file = <<>> /\ nml_cloned = <<>> /\ nml_change = <<>> /\ nml_patch = <<>>
    /\ nml_done = TRUE

RestMom == mom_files = <<>> /\ mom_input = <<>> /\ mom_writes = <<>>

RestMerge == cfg_trace = <<>> /\ cfg_change = <<>> /\ cfg_err = "rest"

RestNested ==
    /\ nested_src = <<>> /\ nested_dict = <<>> /\ nested_n = 0 /\ nested_i = 0
    /\ nested_changes = <<>> /\ nested_err = "rest"

RestParse ==
    /\ pbs_job_file = <<>> /\ line_no = 0 /\ parsed_jobs = <<>>
    /\ current_key = "None" /\ current_value = <<>> /\ job_id = "rest"

RestSnapshot ==
    /\ squeue = {} /\ snap = {} /\ stodo = <<>> /\ scur = <<>>
    /\ snruns = 0 /\ slog = <<>> /\ spc = "rest"

\* the machines added after the driver, all at rest
RestMore == RestValidate /\ RestNaming /\ RestFault /\ RestSnapshot /\ RestParse /\ RestNested /\ RestMerge /\ RestMom /\ RestNml /\ RestLink /\ RestDesc /\ RestApply /\ RestGroups /\ RestCtrl

Impls == {"v1", "v2", "v3"}

Min(S) == CHOOSE x \in S : \A y \in S : x <= y

(***************************************************************************)
(* Values of a group.  A ValueSource is a scalar or a flat list of         *)
(* scalars; isinstance(v, list) is v.list.  A scalar s is kept as          *)
(* [list |-> FALSE, items |-> <<s>>].  Scalars are numbers (or booleans):  *)
(* subscripting one raises TypeError.                                      *)
(***************************************************************************)
MaxLen == 2      \* longest parameter list
MaxKeys == 2     \* most parameters in one group

KeyNames == <<"ahmax", "r_snw", "albicei", "albicev">>
Vals == {1, 2}
k_sub == "shortwave_nml"

RECURSIVE SeqsUpTo(_, _)
SeqsUpTo(S, n) ==
    IF n = 0 THEN {<<>>}
    ELSE LET shorter == SeqsUpTo(S, n - 1)
         IN  shorter \cup {Append(s, x) : s \in {t \in shorter : Len(t) = n - 1}, x \in S}

Scalar(s) == [list |-> FALSE, items |-> <<s>>]
List(l) == [list |-> TRUE, items |-> l]
ValueSources == {Scalar(s) : s \in Vals} \cup {List(l) : l \in SeqsUpTo(Vals, MaxLen)}

\* the groups of n parameters, keys in declaration order
GroupsOf(n) == {[j \in 1..n |-> [k |-> KeyNames[j], v |-> f[j]]] : f \in [1..n -> ValueSources]}
GroupSpecs == UNION {GroupsOf(n) : n \in 1..MaxKeys}

\* v2 and v3 take an empty list for a list of submodels (all() over nothing
\* holds); the groups given to them here hold no empty list
NoEmptyList(nd) == \A j \in 1..Len(nd) : nd[j].v.list => Len(nd[j].v.items) > 0

(***************************************************************************)
(* _cal_num_expts (v1)                                                     *)
(***************************************************************************)
RECURSIVE CalNumIndividual(_, _)
CalNumIndividual(nd, acc) ==
    IF nd = <<>> THEN acc
    ELSE CalNumIndividual(Tail(nd),
                          IF Head(nd).v.list THEN acc + Len(Head(nd).v.items) ELSE 1)

CalNumExpts(nd, isCombo) ==
    IF isCombo
    THEN IF nd[1].v.list THEN Len(nd[1].v.items) ELSE 1
    ELSE CalNumIndividual(nd, 0)

(***************************************************************************)
(* _generate_individual_dicts (v1): the ChangeSets and the group names.    *)
(***************************************************************************)
\* mutant: the scalar branch starts the list afresh, as it does for the
\* group names (append_group_list = [k_sub])
RECURSIVE IndividualChangesFrom(_, _)
IndividualChangesFrom(nd, acc) ==
    IF nd = <<>> THEN acc
    ELSE LET e == Head(nd)
         IN  IndividualChangesFrom(Tail(nd),
                 IF e.v.list
                 THEN acc \o [j \in 1..Len(e.v.items) |-> <<[k |-> e.k, v |-> e.v.items[j]]>>]
                 ELSE << <<[k |-> e.k, v |-> e.v.items[1]]>> >>)

IndividualChangesScalarResets(nd) == IndividualChangesFrom(nd, <<>>)

RECURSIVE IndividualChanges(_)
IndividualChanges(nd) ==
    IF nd = <<>> THEN <<>>
    ELSE LET e == Head(nd)
         IN  (IF e.v.list
              THEN [j \in 1..Len(e.v.items) |-> <<[k |-> e.k, v |-> e.v.items[j]]>>]
              ELSE << <<[k |-> e.k, v |-> e.v.items[1]]>> >>)
             \o IndividualChanges(Tail(nd))

RECURSIVE IndividualGroups(_, _, _)
IndividualGroups(nd, group, acc) ==
    IF nd = <<>> THEN acc
    ELSE IndividualGroups(Tail(nd), group,
                          IF Head(nd).v.list
                          THEN acc \o [j \in 1..Len(Head(nd).v.items) |-> group]
                          ELSE <<group>>)

(***************************************************************************)
(* _generate_combined_dicts.  The result of an expansion is                *)
(* [ok, err, changes]; an exception leaves the lists of the object as      *)
(* they were.                                                              *)
(***************************************************************************)
Raised(e) == [ok |-> FALSE, err |-> e, changes |-> <<>>]
Produced(cs) == [ok |-> TRUE, err |-> "none", changes |-> cs]

\* name_dict[k][i] in v1: what subscripting the value with i (1-based) raises
SubscriptErr(v, i) ==
    IF ~v.list THEN "TypeError"
    ELSE IF i > Len(v.items) THEN "IndexError"
    ELSE "none"

\* v1: {k: name_dict[k][i] for k in name_dict} for i in range(num_expts)
CombinedDictsV1(nd, n) ==
    LET bad == {p \in (1..n) \X (1..Len(nd)) : SubscriptErr(nd[p[2]].v, p[1]) # "none"}
        firstI == Min({p[1] : p \in bad})
        firstJ == Min({p[2] : p \in {q \in bad : q[1] = firstI}})
    IN  IF bad # {}
        THEN Raised(SubscriptErr(nd[firstJ].v, firstI))
        ELSE Produced([i \in 1..n |->
                        [j \in 1..Len(nd) |-> [k |-> nd[j].k, v |-> nd[j].v.items[i]]]])

\* the list-valued entries of a group, in order: v2 and v3 have no branch
\* for a scalar value, its key is left out of the ChangeSet
ListEntries(nd) == SelectSeq(nd, LAMBDA e : e.v.list)

\* v2 / v3: v[i] on a (non-empty) flat list
FlatListErr(v, i) == IF i > Len(v.items) THEN "IndexError" ELSE "none"

CombinedDictsV3(nd, n) ==
    LET le == ListEntries(nd)
        bad == {p \in (1..n) \X (1..Len(le)) : FlatListErr(le[p[2]].v, p[1]) # "none"}
    IN  IF bad # {}
        THEN Raised("IndexError")
        ELSE Produced([i \in 1..n |->
                        [j \in 1..Len(le) |-> [k |-> le[j].k, v |-> le[j].v.items[i]]]])

\* v2: the length check of every pass of the loop comes first
CombinedDictsV2(nd, n) ==
    IF n > 0 /\ \E j \in 1..Len(nd) : nd[j].v.list /\ Len(nd[j].v.items) # n
    THEN Raised("ValueError")
    ELSE CombinedDictsV3(nd, n)

(***************************************************************************)
(* The expander as a state machine.  v1 counts the experiments of the      *)
(* group itself (_process_parameter_group_common); in v2 and v3 num_expts  *)
(* is the length of the user's list of directory names, set when the       *)
(* block is entered.                                                       *)
(***************************************************************************)
InitExpand ==
    /\ impl \in Impls
    /\ name_dict \in GroupSpecs
    /\ impl # "v1" => NoEmptyList(name_dict)
    /\ combo \in (IF impl = "v1" THEN BOOLEAN ELSE {TRUE})
    /\ num_expts \in (IF impl = "v1" THEN {0} ELSE 1..MaxLen)
    /\ epc = (IF impl = "v1" THEN "group" ELSE "counted")
    /\ param_dict_change_list = <<>>
    /\ append_group_list = <<>>
    /\ err = "none"

CalNum ==
    /\ epc = "group"
    /\ impl = "v1"
    /\ num_expts' = CalNumExpts(name_dict, combo)
    /\ epc' = "counted"
    /\ UNCHANGED <<impl, combo, name_dict, param_dict_change_list, append_group_list, err>>

GenerateIndividualDicts ==
    /\ epc = "counted"
    /\ impl = "v1"
    /\ ~combo
    /\ param_dict_change_list' = IndividualChanges(name_dict)
    /\ append_group_list' = IndividualGroups(name_dict, k_sub, <<>>)
    /\ epc' = "expanded"
    /\ UNCHANGED <<impl, combo, name_dict, num_expts, err>>

Expansion ==
    CASE impl = "v1" -> CombinedDictsV1(name_dict, num_expts)
      [] impl = "v2" -> CombinedDictsV2(name_dict, num_expts)
      [] impl = "v3" -> CombinedDictsV3(name_dict, num_expts)

GenerateCombinedDicts ==
    /\ epc = "counted"
    /\ combo
    /\ LET r == Expansion
       IN  /\ err' = r.err
           /\ epc' = (IF r.ok THEN "expanded" ELSE "error")
           /\ param_dict_change_list' = (IF r.ok THEN r.changes ELSE param_dict_change_list)
           /\ append_group_list' =
                 (IF r.ok THEN [i \in 1..num_expts |-> k_sub] ELSE append_group_list)
    /\ UNCHANGED <<impl, combo, name_dict, num_expts>>

(***************************************************************************)
(* Duplicate check and submission (v1: the tail of setup_expts and         *)
(* _start_experiment_runs; v2, v3: PBSJobManager.pbs_job_runs).            *)
(*                                                                         *)
(* A path is the sequence of its segments: "/scratch/test/expt1" is        *)
(* <<"scratch", "test", "expt1">>.  An Error_Path is what split("/")       *)
(* makes of it: the text before the first "/" (the host), the folders,     *)
(* and the file name.                                                      *)
(***************************************************************************)
MaxJobs == 2     \* most jobs in one scheduler dump
MaxRuns == 2     \* largest configured number of runs, and of finished runs

ErrorPaths == {<<"gadi:", "scratch", "test", "expt1", "expt1.e1">>,
               <<"gadi:", "scratch", "other", "expt1", "expt1.e2">>,
               <<"gadi:", "scratch", "test", "expt1.e3">>}
JobStates == {"Q", "R", "F", "S"}
JobRecords == [Error_Path : ErrorPaths, job_state : JobStates]
TargetPaths == {<<"scratch", "test", "expt1">>, <<"scratch", "test", "expt2">>}

\* tmp_path.split("/")[a:b] for the two slices the code takes
Slice(p, from, to) == IF to < from THEN <<>> ELSE SubSeq(p, from, to)

\* _extract_current_and_parent_path
FolderPath(ep) == Slice(ep, 2, Len(ep) - 1)
ParentPath(ep) == Slice(ep, 2, Len(ep) - 2)

IsActive(job) == job.job_state \notin {"F", "S"}

\* parent_paths: parent folder -> folders of the active jobs below it
ParentPaths(jobs) ==
    LET live == {j \in jobs : IsActive(j)}
    IN  [pp \in {ParentPath(j.Error_Path) : j \in live} |->
            {FolderPath(j.Error_Path) : j \in {a \in live : ParentPath(a.Error_Path) = pp}}]

\* mutant: the folder is compared by its name alone
CheckDuplicatedJobsByName(jobs, p) ==
    \E pp \in DOMAIN ParentPaths(jobs) :
        \E f \in ParentPaths(jobs)[pp] : f # <<>> /\ f[Len(f)] = p[Len(p)]

CheckDuplicatedJobs(jobs, p) ==
    \E pp \in DOMAIN ParentPaths(jobs) : p \in ParentPaths(jobs)[pp]

\* mutant: the finished runs are not subtracted
NewRunsIgnoringDone(num_runs, done) == num_runs

NewRuns(num_runs, done) == num_runs - done

Call(op, n) == [op |-> op, n |-> n]

InitPbs ==
    /\ impl \in Impls
    /\ path \in TargetPaths
    /\ check_duplicate_jobs \in BOOLEAN
    /\ nruns \in 0..MaxRuns
    /\ doneruns \in 0..MaxRuns
    /\ pbs_jobs = {}
    /\ duplicated_bool = FALSE
    /\ calls = <<>>
    /\ ppc = "query"

\* _output_existing_pbs_jobs: `qstat -f`, parsed
OutputExistingPbsJobs ==
    /\ ppc = "query"
    /\ \E jobs \in SUBSET JobRecords :
          /\ Cardinality(jobs) <= MaxJobs
          /\ pbs_jobs' = jobs
    /\ calls' = Append(calls, Call("qstat", 0))
    /\ ppc' = "check"
    /\ UNCHANGED <<impl, path, check_duplicate_jobs, nruns, doneruns, duplicated_bool>>

\* the duplicate check, when it is enabled
DuplicateCheck ==
    /\ ppc = "check"
    /\ duplicated_bool' =
          (IF check_duplicate_jobs THEN CheckDuplicatedJobs(pbs_jobs, path) ELSE FALSE)
    /\ ppc' = (IF impl = "v1" THEN "start" ELSE "commit")
    /\ UNCHANGED <<impl, pbs_jobs, path, check_duplicate_jobs, nruns, doneruns, calls>>

\* v2, v3: check_and_commit_changes(path) unless the job is a duplicate
CommitChanges ==
    /\ ppc = "commit"
    /\ calls' = (IF duplicated_bool THEN calls ELSE Append(calls, Call("commit", 0)))
    /\ ppc' = "start"
    /\ UNCHANGED <<impl, pbs_jobs, path, check_duplicate_jobs, nruns, doneruns, duplicated_bool>>

\* _start_experiment_runs; v1 asks for num_runs > 0 before it counts
StartExperimentRuns ==
    /\ ppc = "start"
    /\ LET newruns == NewRuns(nruns, doneruns)
           run == /\ ~duplicated_bool
                  /\ impl = "v1" => nruns > 0
                  /\ newruns > 0
       IN  calls' = (IF run THEN Append(calls, Call("payu run", newruns)) ELSE calls)
    /\ ppc' = "done"
    /\ UNCHANGED <<impl, pbs_jobs, path, check_duplicate_jobs, nruns, doneruns, duplicated_bool>>

(***************************************************************************)
(* The driver: one parameter block walked unit by unit.                    *)
(*                                                                         *)
(* A unit is one group of one file of the block.  What the driver does     *)
(* with a unit depends only on the shape of the group's value:             *)
(*   "dict"   a non-empty dict under a name with the combo suffix          *)
(*   "plain"  a non-empty dict under a name without the combo suffix       *)
(*   "empty"  the dict {} under a name with the combo suffix               *)
(*   "none"   a group written with no value (None)                         *)
(* Every processed unit expands to NumExpts ChangeSets (the expansion      *)
(* itself is SpecExpand's subject).  The duplicate check of a path is      *)
(* "the path has an active job" and the runs still due are an input of     *)
(* each decision (both are SpecPbs's subject).                             *)
(***************************************************************************)
MaxUnits == 3        \* units of a block
NumExpts == 2        \* experiments of a unit

UnitKinds == {"dict", "plain", "empty", "none"}

BlocksUpTo(n) == UNION {[1..m -> UnitKinds] : m \in 1..n}

Expts == 1..NumExpts

\* experiment paths: dir_manager/test_path/<name>, one per possible name
Paths == 1..NumExpts

\* the names of a unit's experiments: all different, or all the same
DistinctNames == [i \in Expts |-> i]

NameVectors == {DistinctNames, [i \in Expts |-> 1]}

\* isinstance(inner_value, dict)
IsDict(kind) == kind # "none"

\* _count_second_level_keys / _count_nested_groups
CountSecondLevelKeys(b) == Cardinality({u \in 1..Len(b) : IsDict(b[u])})

\* the unit reaches setup_expts
Processed(im, isCb, kind) ==
    IF isCb /\ im = "v1"
    THEN kind \in {"dict", "empty"}      \* combo suffix and name_dict is not None
    ELSE kind \in {"dict", "plain"}      \* v2, v3: `if name_dict:`; v1 single file

\* v1, single-file block: _cal_num_expts on None or on {} under a combo name
Crashes(isCb, kind) == ~isCb /\ kind \in {"empty", "none"}

ProcessedUnits == {u \in 1..Len(block) : Processed(impl, cb, block[u])}

AtBarrierEveryPass(isCb, tc, gc) == TRUE

\* self.tmp_count == self.group_count or self.tag_model != "cb"
AtBarrier(isCb, tc, gc) == tc = gc \/ ~isCb

\* payu clone is run for the path
CloneDue(im, isCb, tc, there) ==
    IF im = "v3" THEN ~there ELSE ~there /\ (tc = 1 \/ ~isCb)

Bump(f, x) == [f EXCEPT ![x] = @ + 1]

NextIdx(i) == IF i < NumExpts THEN i + 1 ELSE 0

NextPc(i) == IF i < NumExpts THEN "clone" ELSE "scan"

\* v1 resets the names after the loop of a single-file group
NamesAfter(i) == IF i = NumExpts /\ ~cb THEN <<>> ELSE expt_names

drvHistory == <<clones, metadata_updates, jobname_updates, decisions,
                submits, pass_submits, applied, decided_at>>

InitDriver ==
    /\ pos = 0 /\ idx = 0 /\ tmp_count = 0 /\ dpc = "scan"
    /\ group_count = IF cb THEN CountSecondLevelKeys(block) ELSE 0
    /\ clones = [p \in Paths |-> 0]
    /\ submits = [p \in Paths |-> 0]
    /\ metadata_updates = [i \in Expts |-> 0]
    /\ jobname_updates = [i \in Expts |-> 0]
    /\ decisions = [i \in Expts |-> 0]
    /\ pass_submits = [i \in Expts |-> 0]
    /\ decided_at = [i \in Expts |-> 0]
    /\ applied = {}

\* a cross-file block set up for the first time
InitCross ==
    /\ impl \in Impls
    /\ cb = TRUE
    /\ block \in BlocksUpTo(MaxUnits)
    /\ expt_names = DistinctNames
    /\ exists = {}
    /\ active = {}
    /\ check_duplicate_jobs \in BOOLEAN
    /\ InitDriver

\* a block run again when every experiment directory is there
InitRerun ==
    /\ impl \in Impls
    /\ cb \in (IF impl = "v1" THEN BOOLEAN ELSE {TRUE})
    /\ block \in BlocksUpTo(MaxUnits)
    /\ expt_names \in (IF cb THEN NameVectors ELSE {<<>>})
    /\ exists = Paths
    /\ active \in SUBSET Paths
    /\ check_duplicate_jobs \in BOOLEAN
    /\ InitDriver

\* one turn of the loop over the groups of a file
HandleParamsGroup ==
    /\ dpc = "scan" /\ pos < Len(block)
    /\ pos' = pos + 1
    /\ tmp_count' = IF cb THEN tmp_count + 1 ELSE tmp_count
    /\ LET kind == block[pos + 1] IN
       IF Crashes(cb, kind)
       THEN /\ dpc' = "aborted"
            /\ UNCHANGED <<idx, expt_names, pass_submits>>
       ELSE IF Processed(impl, cb, kind)
       THEN /\ dpc' = "clone" /\ idx' = 1
            /\ IF cb
               THEN UNCHANGED <<expt_names, pass_submits>>
               ELSE /\ expt_names' \in NameVectors
                    /\ pass_submits' = [i \in Expts |-> 0]
       ELSE UNCHANGED <<dpc, idx, expt_names, pass_submits>>
    /\ UNCHANGED <<impl, cb, block, group_count, exists, active, clones,
                   metadata_updates, jobname_updates, decisions, submits,
                   applied, decided_at>>

\* setup_expts, experiment idx: the directory
CloneExptDirectory ==
    /\ dpc = "clone"
    /\ LET p == expt_names[idx] IN
       IF CloneDue(impl, cb, tmp_count, p \in exists)
       THEN exists' = exists \cup {p} /\ clones' = Bump(clones, p)
       ELSE UNCHANGED <<exists, clones>>
    /\ dpc' = IF AtBarrier(cb, tmp_count, group_count) THEN "metadata" ELSE "update"
    /\ UNCHANGED <<impl, cb, block, expt_names, pos, idx, tmp_count, group_count,
                   active, metadata_updates, jobname_updates, decisions, submits,
                   pass_submits, applied, decided_at>>

\* setup_expts, experiment idx: restart symlink, metadata.yaml, jobname
UpdateMetadata ==
    /\ dpc = "metadata"
    /\ IF expt_names[idx] \in exists
       THEN /\ metadata_updates' = Bump(metadata_updates, idx)
            /\ jobname_updates' = Bump(jobname_updates, idx)
            /\ dpc' = "update"
       ELSE /\ dpc' = "aborted"
            /\ UNCHANGED <<metadata_updates, jobname_updates>>
    /\ UNCHANGED <<impl, cb, block, expt_names, pos, idx, tmp_count, group_count,
                   exists, active, clones, decisions, submits, pass_submits,
                   applied, decided_at>>

\* setup_expts, experiment idx: the unit's ChangeSet written to its file
UpdateConfigurationFiles ==
    /\ dpc = "update"
    /\ IF expt_names[idx] \in exists
       THEN /\ applied' = applied \cup {<<pos, idx>>}
            /\ IF AtBarrier(cb, tmp_count, group_count)
               THEN dpc' = "submit" /\ UNCHANGED <<idx, expt_names>>
               ELSE /\ dpc' = NextPc(idx) /\ idx' = NextIdx(idx)
                    /\ expt_names' = NamesAfter(idx)
       ELSE /\ dpc' = "aborted"
            /\ UNCHANGED <<applied, idx, expt_names>>
    /\ UNCHANGED <<impl, cb, block, pos, tmp_count, group_count, exists, active,
                   clones, metadata_updates, jobname_updates, decisions, submits,
                   pass_submits, decided_at>>

\* setup_expts, experiment idx: duplicate check and submission
PbsJobRuns ==
    /\ dpc = "submit"
    /\ \E due \in BOOLEAN :
         LET p == expt_names[idx]
             duplicated == check_duplicate_jobs /\ p \in active
             run == ~duplicated /\ due
         IN /\ decisions' = Bump(decisions, idx)
            /\ decided_at' = [decided_at EXCEPT ![idx] = IF @ = 0 THEN pos ELSE @]
            /\ submits' = IF run THEN Bump(submits, p) ELSE submits
            /\ pass_submits' = IF run THEN Bump(pass_submits, idx) ELSE pass_submits
            /\ active' = IF run THEN active \cup {p} ELSE active
    /\ dpc' = NextPc(idx) /\ idx' = NextIdx(idx)
    /\ expt_names' = NamesAfter(idx)
    /\ UNCHANGED <<impl, cb, block, pos, tmp_count, group_count, exists, clones,
                   metadata_updates, jobname_updates, applied>>

\* the block is through: the user-defined names are reset
ResetExptNames ==
    /\ dpc = "scan" /\ pos = Len(block)
    /\ dpc' = "done"
    /\ expt_names' = <<>>
    /\ UNCHANGED <<impl, cb, block, pos, idx, tmp_count, group_count, exists,
                   active, drvHistory>>

(***************************************************************************)
(* The specifications.  Each runs one of the state machines and leaves    *)
(* the variables of the others at rest.                                    *)
(***************************************************************************)
RestExpand ==
    /\ combo = FALSE /\ name_dict = <<>> /\ num_expts = 0
    /\ param_dict_change_list = <<>> /\ append_group_list = <<>>
    /\ epc = "rest" /\ err = "none"

RestPbsRun ==
    /\ pbs_jobs = {} /\ path = <<>>
    /\ nruns = 0 /\ doneruns = 0 /\ duplicated_bool = FALSE
    /\ calls = <<>> /\ ppc = "rest"

RestPbs == RestPbsRun /\ check_duplicate_jobs = FALSE

RestDriver ==
    /\ cb = FALSE /\ block = <<>> /\ expt_names = <<>>
    /\ pos = 0 /\ idx = 0 /\ tmp_count = 0 /\ group_count = 0 /\ dpc = "rest"
    /\ exists = {} /\ active = {}
    /\ clones = <<>> /\ metadata_updates = <<>> /\ jobname_updates = <<>>
    /\ decisions = <<>> /\ submits = <<>> /\ pass_submits = <<>>
    /\ applied = {} /\ decided_at = <<>>

\* what a step of one machine leaves alone: the variables of the others
ExpandFrame == UNCHANGED <<pbsVars, drvVars, moreVars>>

PbsFrame == UNCHANGED <<expVars, drvVars, moreVars>>

DriverFrame == UNCHANGED <<expVars, pbsVars, moreVars>>

NextExpand ==
    \/ CalNum /\ ExpandFrame
    \/ GenerateIndividualDicts /\ ExpandFrame
    \/ GenerateCombinedDicts /\ ExpandFrame

InitSpecExpand == InitExpand /\ RestPbs /\ RestDriver /\ RestMore

SpecExpand == InitSpecExpand /\ [][NextExpand]_vars

NextPbs ==
    \/ OutputExistingPbsJobs /\ PbsFrame
    \/ DuplicateCheck /\ PbsFrame
    \/ CommitChanges /\ PbsFrame
    \/ StartExperimentRuns /\ PbsFrame

InitSpecPbs == InitPbs /\ RestExpand /\ RestDriver /\ RestMore

SpecPbs == InitSpecPbs /\ [][NextPbs]_vars

NextDriver ==
    \/ HandleParamsGroup /\ DriverFrame
    \/ CloneExptDirectory /\ DriverFrame
    \/ UpdateMetadata /\ DriverFrame
    \/ UpdateConfigurationFiles /\ DriverFrame
    \/ PbsJobRuns /\ DriverFrame
    \/ ResetExptNames /\ DriverFrame

InitSpecCross == InitCross /\ RestExpand /\ RestPbsRun /\ RestMore

SpecCross == InitSpecCross /\ [][NextDriver]_vars

InitSpecRerun == InitRerun /\ RestExpand /\ RestPbsRun /\ RestMore

SpecRerun == InitSpecRerun /\ [][NextDriver]_vars

\* BEGIN frames of the later machines
ValidateFrame == UNCHANGED <<expVars, pbsVars, drvVars, namVars, fltVars, snpVars, prsVars, nstVars, cfgVars, momVars, nmlVars, lnkVars, mdVars, csVars, gvVars, ctVars>>

ValidateOthers ==
    /\ RestExpand /\ RestPbs /\ RestDriver
    /\ RestNaming /\ RestFault /\ RestSnapshot /\ RestParse /\ RestNested /\ RestMerge /\ RestMom /\ RestNml /\ RestLink /\ RestDesc /\ RestApply /\ RestGroups /\ RestCtrl

NamingFrame == UNCHANGED <<expVars, pbsVars, drvVars, valVars, fltVars, snpVars, prsVars, nstVars, cfgVars, momVars, nmlVars, lnkVars, mdVars, csVars, gvVars, ctVars>>

NamingOthers ==
    /\ RestExpand /\ RestPbs /\ RestDriver
    /\ RestValidate /\ RestFault /\ RestSnapshot /\ RestParse /\ RestNested /\ RestMerge /\ RestMom /\ RestNml /\ RestLink /\ RestDesc /\ RestApply /\ RestGroups /\ RestCtrl

FaultFrame == UNCHANGED <<expVars, pbsVars, valVars, namVars, snpVars, prsVars, nstVars, cfgVars, momVars, nmlVars, lnkVars, mdVars, csVars, gvVars, ctVars>>

SnapshotFrame == UNCHANGED <<expVars, pbsVars, drvVars, valVars, namVars, fltVars, prsVars, nstVars, cfgVars, momVars, nmlVars, lnkVars, mdVars, csVars, gvVars, ctVars>>

SnapshotOthers ==
    /\ RestExpand /\ RestPbsRun /\ RestDriver
    /\ RestValidate /\ RestNaming /\ RestFault /\ RestParse /\ RestNested /\ RestMerge /\ RestMom /\ RestNml /\ RestLink /\ RestDesc /\ RestApply /\ RestGroups /\ RestCtrl

ParseFrame == UNCHANGED <<expVars, pbsVars, drvVars, valVars, namVars, fltVars, snpVars, nstVars, cfgVars, momVars, nmlVars, lnkVars, mdVars, csVars, gvVars, ctVars>>

ParseOthers ==
    /\ RestExpand /\ RestPbs /\ RestDriver
    /\ RestValidate /\ RestNaming /\ RestFault /\ RestSnapshot /\ RestNested /\ RestMerge /\ RestMom /\ RestNml /\ RestLink /\ RestDesc /\ RestApply /\ RestGroups /\ RestCtrl

NestedFrame == UNCHANGED <<expVars, pbsVars, drvVars, valVars, namVars, fltVars, snpVars, prsVars, cfgVars, momVars, nmlVars, lnkVars, mdVars, csVars, gvVars, ctVars>>

NestedOthers ==
    /\ RestExpand /\ RestPbs /\ RestDriver
    /\ RestValidate /\ RestNaming /\ RestFault /\ RestSnapshot /\ RestParse /\ RestMerge /\ RestMom /\ RestNml /\ RestLink /\ RestDesc /\ RestApply /\ RestGroups /\ RestCtrl

MergeFrame == UNCHANGED <<expVars, pbsVars, drvVars, valVars, namVars, fltVars, snpVars, prsVars, nstVars, momVars, nmlVars, lnkVars, mdVars, csVars, gvVars, ctVars>>

MergeOthers ==
    /\ RestExpand /\ RestPbs /\ RestDriver
    /\ RestValidate /\ RestNaming /\ RestFault /\ RestSnapshot /\ RestParse /\ RestNested /\ RestMom /\ RestNml /\ RestLink /\ RestDesc /\ RestApply /\ RestGroups /\ RestCtrl

MomFrame == UNCHANGED <<expVars, pbsVars, drvVars, valVars, namVars, fltVars, snpVars, prsVars, nstVars, cfgVars, nmlVars, lnkVars, mdVars, csVars, gvVars, ctVars>>

MomOthers ==
    /\ RestExpand /\ RestPbs /\ RestDriver
    /\ RestValidate /\ RestNaming /\ RestFault /\ RestSnapshot /\ RestParse /\ RestNested /\ RestMerge /\ RestNml /\ RestLink /\ RestDesc /\ RestApply /\ RestGroups /\ RestCtrl

NmlFrame == UNCHANGED <<expVars, pbsVars, drvVars, valVars, namVars, fltVars, snpVars, prsVars, nstVars, cfgVars, momVars, lnkVars, mdVars, csVars, gvVars, ctVars>>

NmlOthers ==
    /\ RestExpand /\ RestPbs /\ RestDriver
    /\ RestValidate /\ RestNaming /\ RestFault /\ RestSnapshot /\ RestParse /\ RestNested /\ RestMerge /\ RestMom /\ RestLink /\ RestDesc /\ RestApply /\ RestGroups /\ RestCtrl

LinkFrame == UNCHANGED <<expVars, pbsVars, drvVars, valVars, namVars, fltVars, snpVars, prsVars, nstVars, cfgVars, momVars, nmlVars, mdVars, csVars, gvVars, ctVars>>

LinkOthers ==
    /\ RestExpand /\ RestPbs /\ RestDriver
    /\ RestValidate /\ RestNaming /\ RestFault /\ RestSnapshot /\ RestParse /\ RestNested /\ RestMerge /\ RestMom /\ RestNml /\ RestDesc /\ RestApply /\ RestGroups /\ RestCtrl

DescFrame == UNCHANGED <<expVars, pbsVars, drvVars, valVars, namVars, fltVars, snpVars, prsVars, nstVars, cfgVars, momVars, nmlVars, lnkVars, csVars, gvVars, ctVars>>

DescOthers ==
    /\ RestExpand /\ RestPbs /\ RestDriver
    /\ RestValidate /\ RestNaming /\ RestFault /\ RestSnapshot /\ RestParse /\ RestNested /\ RestMerge /\ RestMom /\ RestNml /\ RestLink /\ RestApply /\ RestGroups /\ RestCtrl

ApplyFrame == UNCHANGED <<expVars, pbsVars, drvVars, valVars, namVars, fltVars, snpVars, prsVars, nstVars, cfgVars, momVars, nmlVars, lnkVars, mdVars, gvVars, ctVars>>

ApplyOthers ==
    /\ RestExpand /\ RestPbs /\ RestDriver
    /\ RestValidate /\ RestNaming /\ RestFault /\ RestSnapshot /\ RestParse /\ RestNested /\ RestMerge /\ RestMom /\ RestNml /\ RestLink /\ RestDesc /\ RestGroups /\ RestCtrl

GroupsFrame == UNCHANGED <<expVars, pbsVars, drvVars, valVars, namVars, fltVars, snpVars, prsVars, nstVars, cfgVars, momVars, nmlVars, lnkVars, mdVars, csVars, ctVars>>

GroupsOthers ==
    /\ RestExpand /\ RestPbs /\ RestDriver
    /\ RestValidate /\ RestNaming /\ RestFault /\ RestSnapshot /\ RestParse /\ RestNested /\ RestMerge /\ RestMom /\ RestNml /\ RestLink /\ RestDesc /\ RestApply /\ RestCtrl

CtrlFrame == UNCHANGED <<expVars, pbsVars, drvVars, valVars, namVars, fltVars, snpVars, prsVars, nstVars, cfgVars, momVars, nmlVars, lnkVars, mdVars, csVars, gvVars>>

CtrlOthers ==
    /\ RestExpand /\ RestPbs /\ RestDriver
    /\ RestValidate /\ RestNaming /\ RestFault /\ RestSnapshot /\ RestParse /\ RestNested /\ RestMerge /\ RestMom /\ RestNml /\ RestLink /\ RestDesc /\ RestApply /\ RestGroups

\* END frames of the later machines

(***************************************************************************)
(* User-defined directory names against the experiments of a group.        *)
(*                                                                         *)
(* A block whose groups are given with a list of dirs_len directory names: *)
(* in a single-file block (v1) the list precedes each group and            *)
(* _valid_expt_names compares it with num_expts; in a cross-file block     *)
(* (v1, v2) the list belongs to the block and num_expts is its length.     *)
(***************************************************************************)
MaxValGroups == 2

\* only the lengths matter here: groups whose values are all 1
LengthGroups == {nd \in GroupSpecs : \A j \in 1..Len(nd) : \A x \in 1..Len(nd[j].v.items) : nd[j].v.items[x] = 1}

ValUnits(isCb, im) ==
    {[nd |-> nd, combo |-> c] : 
        nd \in {g \in LengthGroups : im = "v2" => NoEmptyList(g)},
        c \in (IF isCb THEN {TRUE} ELSE BOOLEAN)}

InitValidate ==
    /\ impl \in {"v1", "v2"}
    /\ vcb \in (IF impl = "v1" THEN BOOLEAN ELSE {TRUE})
    /\ vblock \in UNION {[1..m -> ValUnits(vcb, impl)] : m \in 1..MaxValGroups}
    /\ dirs_len \in 0..(MaxLen + 1)
    /\ vpos = 0 /\ vchanges = <<>> /\ vcloned = {} /\ vwritten = {}
    /\ verr = "none" /\ vpc = "generate"

\* _valid_expt_names: a list that is not empty and not num_expts long
InvalidExptNames(n, len) == len > 0 /\ len # n

\* the expansion of one group, after the validation where there is one
GenerateFor(im, isCb, g, len) ==
    IF isCb
    THEN IF im = "v1" THEN CombinedDictsV1(g.nd, len) ELSE CombinedDictsV2(g.nd, len)
    ELSE LET n == CalNumExpts(g.nd, g.combo)
         IN  IF InvalidExptNames(n, len) THEN Raised("ValueError")
             ELSE IF g.combo THEN CombinedDictsV1(g.nd, n)
             ELSE Produced(IndividualChanges(g.nd))

\* _cal_num_expts, _valid_expt_names and the generation of the ChangeSets
GenerateDicts ==
    /\ vpc = "generate" /\ vpos < Len(vblock)
    /\ LET r == GenerateFor(impl, vcb, vblock[vpos + 1], dirs_len)
       IN  /\ vchanges' = r.changes
           /\ verr' = r.err
           /\ vpc' = IF r.ok THEN "setup" ELSE "failed"
    /\ vpos' = vpos + 1
    /\ UNCHANGED <<impl, vcb, vblock, dirs_len, vcloned, vwritten>>

\* setup_expts: expt_names[i] for every ChangeSet, clone and ConfigApplier
SetupExptsNamed ==
    /\ vpc = "setup"
    /\ LET n == Len(vchanges)
           m == IF n <= dirs_len THEN n ELSE dirs_len
       IN  /\ vcloned' = IF vcb /\ vpos > 1 THEN vcloned
                         ELSE vcloned \cup {<<vpos, i>> : i \in 1..m}
           /\ vwritten' = vwritten \cup {<<vpos, i>> : i \in 1..m}
           /\ verr' = IF n > dirs_len THEN "IndexError" ELSE "none"
           /\ vpc' = IF n > dirs_len THEN "failed" ELSE "generate"
    /\ UNCHANGED <<impl, vcb, vblock, dirs_len, vpos, vchanges>>

FinishValidate ==
    /\ vpc = "generate" /\ vpos = Len(vblock)
    /\ vpc' = "done"
    /\ UNCHANGED <<impl, vcb, vblock, dirs_len, vpos, vchanges, vcloned, vwritten, verr>>

NextValidate ==
    \/ GenerateDicts /\ ValidateFrame
    \/ SetupExptsNamed /\ ValidateFrame
    \/ FinishValidate /\ ValidateFrame

InitSpecValidate == InitValidate /\ ValidateOthers

SpecValidate == InitSpecValidate /\ [][NextValidate]_vars

(***************************************************************************)
(* The names of the experiments (_generate_expt_names, v1).                *)
(*                                                                         *)
(* A text is the sequence of its pieces, the underscore being a piece of   *)
(* its own: "r_snw" is <<"r", "_", "snw">>.  A value is [t, text]: its     *)
(* type and what str() prints for it; 1 and "1" differ in t only.          *)
(***************************************************************************)
Underscore == <<"_">>

KeyText(k) ==
    CASE k = "r_snw" -> <<"r", "_", "snw">>
      [] k = "a_b" -> <<"a", "_", "b">>
      [] OTHER -> <<k>>

IntValue(n) == [t |-> "int", text |-> <<ToString(n)>>]

StrValue(s) == [t |-> "str", text |-> s]

\* a group of the expander with its values typed
TypedGroup(nd) ==
    [j \in 1..Len(nd) |->
        [k |-> nd[j].k,
         v |-> [list |-> nd[j].v.list,
                items |-> [x \in 1..Len(nd[j].v.items) |-> IntValue(nd[j].v.items[x])]]]]

\* f"{k}_{v}"
KeyValue(e) == KeyText(e.k) \o Underscore \o e.v.text

ExptNameValueFirst(cs) ==
    IF cs = <<>> THEN <<>>
    ELSE LET JoinV[n \in 1..Len(cs)] ==
                 IF n = 1 THEN cs[1].v.text \o Underscore \o KeyText(cs[1].k)
                 ELSE JoinV[n - 1] \o Underscore \o cs[n].v.text \o Underscore \o KeyText(cs[n].k)
         IN  JoinV[Len(cs)]

\* "_".join([f"{k}_{v}" for k, v in param_dict.items()])
ExptNameOf(cs) ==
    IF cs = <<>> THEN <<>>
    ELSE LET Join[n \in 1..Len(cs)] ==
                 IF n = 1 THEN KeyValue(cs[1])
                 ELSE Join[n - 1] \o Underscore \o KeyValue(cs[n])
         IN  Join[Len(cs)]

\* the ChangeSets of a group that is named: individual or combined (v1)
ChangesToName(nd, isCombo) ==
    IF isCombo THEN CombinedDictsV1(nd, CalNumExpts(nd, TRUE))
    ELSE Produced(IndividualChanges(nd))

\* a user-defined list of n directory names
UserNames(n) == [i \in 1..n |-> <<"expt", ToString(n + 1 - i)>>]

InitNamingOf(groups) ==
    /\ impl = "v1"
    /\ ngroup \in groups
    /\ ncombo \in BOOLEAN
    /\ ChangesToName(ngroup, ncombo).ok
    /\ nchanges = ChangesToName(ngroup, ncombo).changes
    /\ nuser \in {[given |-> FALSE, names |-> <<>>],
                  [given |-> TRUE, names |-> UserNames(Len(nchanges))]}
    /\ nidx = 0 /\ nnames = <<>>

\* groups whose keys hold underscores and whose values print alike
NamingValues == {IntValue(1), StrValue(<<"1">>), StrValue(<<"b", "_", "1">>)}

NamingKeys == {"a", "a_b", "b"}

NamingSources ==
    {Scalar(v) : v \in NamingValues} \cup {List(<<v>>) : v \in NamingValues}
    \cup {List(<<v, w>>) : v \in NamingValues, w \in NamingValues}

NamingGroups ==
    {<<[k |-> k1, v |-> v1]>> : k1 \in NamingKeys, v1 \in NamingSources}
    \cup {<<[k |-> p[1], v |-> v1], [k |-> p[2], v |-> v2]>> :
             p \in {q \in NamingKeys \X NamingKeys : q[1] # q[2]},
             v1 \in NamingSources, v2 \in NamingSources}

\* setup_expts, experiment nidx + 1: its name
GenerateExptNames ==
    /\ nidx < Len(nchanges)
    /\ nnames' = Append(nnames,
                        IF nuser.given THEN nuser.names[nidx + 1]
                        ELSE ExptNameOf(nchanges[nidx + 1]))
    /\ nidx' = nidx + 1
    /\ UNCHANGED <<impl, ngroup, ncombo, nchanges, nuser>>

NextNaming == GenerateExptNames /\ NamingFrame

InitSpecNaming ==
    InitNamingOf({TypedGroup(nd) : nd \in GroupSpecs}) /\ NamingOthers

SpecNaming == InitSpecNaming /\ [][NextNaming]_vars

InitSpecNamingAlike ==
    InitNamingOf(NamingGroups) /\ NamingOthers

SpecNamingAlike == InitSpecNamingAlike /\ [][NextNaming]_vars

(***************************************************************************)
(* The driver with external commands that can fail.  payu clone runs with  *)
(* check=True in every revision; payu run runs with check=False in v1 and  *)
(* with check=True in v2 and v3.  No caller catches CalledProcessError.    *)
(***************************************************************************)
\* subprocess.run(command, shell=True, check=...) of payu run
SubmitChecked(im) == im # "v1"

\* payu clone exits with a non-zero status
CloneFails ==
    /\ dpc = "clone"
    /\ CloneDue(impl, cb, tmp_count, expt_names[idx] \in exists)
    /\ clones' = Bump(clones, expt_names[idx])
    /\ fault' = "clone"
    /\ dpc' = "aborted"
    /\ UNCHANGED <<impl, cb, block, expt_names, pos, idx, tmp_count, group_count,
                   exists, active, metadata_updates, jobname_updates, decisions,
                   submits, pass_submits, applied, decided_at>>

\* payu run exits with a non-zero status: no job is queued
SubmitFails ==
    /\ dpc = "submit"
    /\ ~(check_duplicate_jobs /\ expt_names[idx] \in active)
    /\ decisions' = Bump(decisions, idx)
    /\ decided_at' = [decided_at EXCEPT ![idx] = IF @ = 0 THEN pos ELSE @]
    /\ submits' = Bump(submits, expt_names[idx])
    /\ pass_submits' = Bump(pass_submits, idx)
    /\ fault' = "submit"
    /\ IF SubmitChecked(impl)
       THEN dpc' = "aborted" /\ UNCHANGED <<idx, expt_names>>
       ELSE dpc' = NextPc(idx) /\ idx' = NextIdx(idx) /\ expt_names' = NamesAfter(idx)
    /\ UNCHANGED <<impl, cb, block, pos, tmp_count, group_count, exists, active,
                   clones, metadata_updates, jobname_updates, applied>>

NextFaulty ==
    \/ HandleParamsGroup /\ DriverFrame
    \/ CloneExptDirectory /\ DriverFrame
    \/ UpdateMetadata /\ DriverFrame
    \/ UpdateConfigurationFiles /\ DriverFrame
    \/ PbsJobRuns /\ DriverFrame
    \/ ResetExptNames /\ DriverFrame
    \/ CloneFails /\ FaultFrame
    \/ SubmitFails /\ FaultFrame

InitSpecFaulty == InitCross /\ RestExpand /\ RestPbsRun /\ RestMore

SpecFaulty == InitSpecFaulty /\ [][NextFaulty]_vars

(***************************************************************************)
(* A run of several submission decisions against one scheduler.  The       *)
(* scheduler holds the job records; the manager sees them only through     *)
(* the dump it queries at the head of each decision (v1: setup_expts       *)
(* 898-908, v2 and v3: pbs_job_runs).  A payu run that is called queues a  *)
(* job whose Error_Path lies in the experiment's folder.                   *)
(***************************************************************************)
MaxDecisions == 3

\* the record of the job that payu run queues for the path p
JobOf(p) == [Error_Path |-> <<"gadi:">> \o p \o <<p[Len(p)] \o ".e1">>, job_state |-> "Q"]

\* mutant: the dump of the first query is kept for the whole run
SnapshotOfFirstQuery(queue, old, log) == IF log = <<>> THEN queue ELSE old

\* pbs_jobs = output_existing_pbs_jobs(): parsed from a dump made now
SnapshotOf(queue, old, log) == queue

Event(op, p) == [op |-> op, at |-> p]

InitSnapshot ==
    /\ impl \in Impls
    /\ check_duplicate_jobs \in BOOLEAN
    /\ squeue \in {{}} \cup {{j} : j \in JobRecords}
    /\ stodo \in UNION {[1..n -> TargetPaths] : n \in 1..MaxDecisions}
    /\ snruns \in 0..MaxRuns
    /\ snap = {} /\ scur = <<>> /\ slog = <<>> /\ spc = "query"

\* the head of a decision: qstat -f, parsed
QueryScheduler ==
    /\ spc = "query" /\ stodo # <<>>
    /\ scur' = Head(stodo)
    /\ stodo' = Tail(stodo)
    /\ snap' = SnapshotOf(squeue, snap, slog)
    /\ slog' = Append(slog, Event("qstat", Head(stodo)))
    /\ spc' = "decide"
    /\ UNCHANGED <<impl, squeue, snruns>>

\* the duplicate check on the dump and _start_experiment_runs
DecideSubmission ==
    /\ spc = "decide"
    /\ \E done \in 0..MaxRuns :
         LET duplicated == check_duplicate_jobs /\ CheckDuplicatedJobs(snap, scur)
             run == /\ ~duplicated
                    /\ impl = "v1" => snruns > 0
                    /\ NewRuns(snruns, done) > 0
         IN  /\ squeue' = IF run THEN squeue \cup {JobOf(scur)} ELSE squeue
             /\ slog' = IF run THEN Append(slog, Event("payu run", scur)) ELSE slog
    /\ spc' = "query"
    /\ UNCHANGED <<impl, stodo, scur, snap, snruns>>

FinishRun ==
    /\ spc = "query" /\ stodo = <<>>
    /\ spc' = "done"
    /\ UNCHANGED <<impl, squeue, stodo, scur, snap, snruns, slog>>

NextSnapshot ==
    \/ QueryScheduler /\ SnapshotFrame
    \/ DecideSubmission /\ SnapshotFrame
    \/ FinishRun /\ SnapshotFrame

InitSpecSnapshot == InitSnapshot /\ SnapshotOthers

SpecSnapshot == InitSpecSnapshot /\ [][NextSnapshot]_vars

(***************************************************************************)
(* The parser of the `qstat -f` dump (_output_existing_pbs_jobs, the same  *)
(* loop in v1, v2 and v3).  A dump is the sequence of its lines:           *)
(*   [kind |-> "job", id]            Job Id: <id>                          *)
(*   [kind |-> "pair", key, value]   4 blanks, <key> = <value>             *)
(*   [kind |-> "cont", text]         8 blanks or a tab, text without " = " *)
(*   [kind |-> "blank"]              an empty line                         *)
(* A text is the sequence of its pieces, so that += is \o.  A dump begins  *)
(* with a Job Id line.                                                     *)
(***************************************************************************)
MaxLines == 4

JobIds == {"101.gadi-pbs", "102.gadi-pbs"}

DumpLines ==
    {[kind |-> "job", id |-> j] : j \in JobIds}
    \cup {[kind |-> "pair", key |-> k, value |-> v] :
             k \in {"job_state", "Error_Path"}, v \in {<<"R">>, <<"gadi:/scratch/">>}}
    \cup {[kind |-> "cont", text |-> <<"test/expt1/expt1.e1">>], [kind |-> "blank"]}

Dumps ==
    {d \in UNION {[1..n -> DumpLines] : n \in 1..MaxLines} : d[1].kind = "job"}

NoKey == "None"

EmptyRecord == [k \in {} |-> <<>>]

\* pbs_jobs[job_id][key] = value
Store(jobs, id, key, value) ==
    [jobs EXCEPT ![id] = [k \in DOMAIN jobs[id] \cup {key} |->
                             IF k = key THEN value ELSE jobs[id][k]]]

\* what a Job Id line does with the pair that is still open: nothing
AtNewJob(jobs, id, key, value) == jobs

InitParse ==
    /\ impl \in Impls
    /\ pbs_job_file \in Dumps
    /\ line_no = 0
    /\ parsed_jobs = EmptyRecord
    /\ current_key = NoKey /\ current_value = <<>> /\ job_id = NoKey

\* one turn of the loop over the lines
ParseLine ==
    /\ line_no < Len(pbs_job_file)
    /\ line_no' = line_no + 1
    /\ LET line == pbs_job_file[line_no + 1] IN
       CASE line.kind = "blank" ->
               UNCHANGED <<parsed_jobs, current_key, current_value, job_id>>
         [] line.kind = "job" ->
               /\ job_id' = line.id
               /\ parsed_jobs' =
                     LET kept == AtNewJob(parsed_jobs, job_id, current_key, current_value)
                     IN  [j \in DOMAIN kept \cup {line.id} |->
                             IF j = line.id THEN EmptyRecord ELSE kept[j]]
               /\ current_key' = NoKey /\ current_value' = <<>>
         [] line.kind = "cont" ->
               /\ current_value' = IF current_key # NoKey
                                   THEN current_value \o line.text ELSE current_value
               /\ UNCHANGED <<parsed_jobs, current_key, job_id>>
         [] line.kind = "pair" ->
               /\ parsed_jobs' = IF current_key # NoKey
                                 THEN Store(parsed_jobs, job_id, current_key, current_value)
                                 ELSE parsed_jobs
               /\ current_key' = line.key
               /\ current_value' = line.value
               /\ UNCHANGED job_id
    /\ UNCHANGED <<impl, pbs_job_file>>

\* the end of the file: pbs_jobs is returned as it is
ReturnPbsJobs ==
    /\ line_no = Len(pbs_job_file)
    /\ job_id # "returned"
    /\ job_id' = "returned"
    /\ UNCHANGED <<impl, pbs_job_file, line_no, parsed_jobs, current_key, current_value>>

NextParse ==
    \/ ParseLine /\ ParseFrame
    \/ ReturnPbsJobs /\ ParseFrame

InitSpecParse == InitParse /\ ParseOthers

SpecParse == InitSpecParse /\ [][NextParse]_vars

(***************************************************************************)
(* _generate_combined_dicts on nested values.  The group holds one key     *)
(* whose value is a list of lists (one sub-list per experiment) or a list  *)
(* of submodel dicts.  Python values are kept typed:                       *)
(*   a leaf of a submodel  [kind, items, rows]   kind "scalar": items =    *)
(*                         <<x>>; "list": items; "lol": rows               *)
(*   a submodel            a sequence of [k, v] with v a leaf              *)
(*   an element of a list  [atom, x, d]   a scalar x, or the dict d        *)
(*   the value of the key  [shape, rows, subs]   shape "rows": a list of   *)
(*                         lists of elements; "subs": a list of submodels  *)
(* A list of lists of dicts (the grouped submodels) is, as in Python, a    *)
(* list of lists.  No list is empty.  num_expts is the length of the list  *)
(* of experiment names (v1 line 579, v2 and v3 likewise).                  *)
(***************************************************************************)
MaxRows == 2     \* most experiments, most sub-lists, most submodels
MaxInner == 2    \* longest sub-list

NonEmptySeqs(S, n) == SeqsUpTo(S, n) \ {<<>>}

ScalarLeaf(x) == [kind |-> "scalar", items |-> <<x>>, rows |-> <<>>]
ListLeaf(l) == [kind |-> "list", items |-> l, rows |-> <<>>]
LolLeaf(r) == [kind |-> "lol", items |-> <<>>, rows |-> r]

Atom(x) == [atom |-> TRUE, x |-> x, d |-> <<>>]
DictElem(d) == [atom |-> FALSE, x |-> 0, d |-> d]

RowsValue(r) == [shape |-> "rows", rows |-> r, subs |-> <<>>]
SubsValue(s) == [shape |-> "subs", rows |-> <<>>, subs |-> s]

Leaves ==
    {ScalarLeaf(x) : x \in Vals}
    \cup {ListLeaf(l) : l \in NonEmptySeqs(Vals, MaxRows)}
    \cup {LolLeaf(r) : r \in NonEmptySeqs(NonEmptySeqs({1}, MaxRows), MaxInner)}

SubmodelKeys == <<"ncpus", "input">>

\* a submodel dict of one parameter
Submodels == {<<[k |-> SubmodelKeys[j], v |-> l]>> : j \in 1..2, l \in Leaves}

NestedValues ==
    {RowsValue([j \in 1..Len(r) |-> [c \in 1..Len(r[j]) |-> Atom(r[j][c])]]) :
        r \in NonEmptySeqs(NonEmptySeqs(Vals, MaxInner), MaxRows)}
    \cup {SubsValue(s) : s \in NonEmptySeqs(Submodels, MaxRows)}

\* list(map(list, zip(*values))): zip stops at the shortest sub-list
Transpose(r) ==
    LET width == Min({Len(r[j]) : j \in 1..Len(r)})
    IN  [c \in 1..width |-> [j \in 1..Len(r) |-> r[j][c]]]

\* what _preprocess_nested_dicts of v3 does to a list of lists
PreprocessRowsV3(r) == Transpose(r)

\* _extract_values_for_experiment (v3) and the inner loop of v2, on a leaf;
\* i counts from 1
ExtractErr(leaf, i) ==
    CASE leaf.kind = "list" -> IF i > Len(leaf.items) THEN "IndexError" ELSE "none"
      [] leaf.kind = "lol" -> IF \E j \in 1..Len(leaf.rows) : i > Len(leaf.rows[j])
                              THEN "IndexError" ELSE "none"
      [] OTHER -> "none"

ExtractValue(leaf, i) ==
    CASE leaf.kind = "list" -> ScalarLeaf(leaf.items[i])
      [] leaf.kind = "lol" -> ListLeaf([j \in 1..Len(leaf.rows) |-> leaf.rows[j][i]])
      [] OTHER -> leaf

ExtractValuesForExperiment(submodel, i) ==
    [j \in 1..Len(submodel) |-> [k |-> submodel[j].k, v |-> ExtractValue(submodel[j].v, i)]]

\* entry[k] = v[i] of v1: a scalar has no subscript, a list of lists gives
\* its i-th sub-list
EntryErrV1(leaf, i) ==
    CASE leaf.kind = "scalar" -> "TypeError"
      [] leaf.kind = "list" -> IF i > Len(leaf.items) THEN "IndexError" ELSE "none"
      [] OTHER -> IF i > Len(leaf.rows) THEN "IndexError" ELSE "none"

EntryValueV1(leaf, i) ==
    IF leaf.kind = "list" THEN ScalarLeaf(leaf.items[i]) ELSE ListLeaf(leaf.rows[i])

\* len(next(iter(tmp_values[0].values()))) of v1
NumEntriesV1(subs) ==
    LET first == subs[1][1].v
    IN  IF first.kind = "list" THEN Len(first.items) ELSE Len(first.rows)

\* the first error of the grouping, experiments outermost in v1, submodels
\* outermost in v2 and v3; one parameter per submodel
GroupErr(im, subs, n) ==
    IF im = "v1"
    THEN IF subs[1][1].v.kind = "scalar" THEN "TypeError"
         ELSE LET bad == {p \in (1..NumEntriesV1(subs)) \X (1..Len(subs)) :
                             EntryErrV1(subs[p[2]][1].v, p[1]) # "none"}
                  i == Min({p[1] : p \in bad})
                  s == Min({p[2] : p \in {q \in bad : q[1] = i}})
              IN  IF bad = {} THEN "none" ELSE EntryErrV1(subs[s][1].v, i)
    ELSE IF \E s \in 1..Len(subs), i \in 1..n : ExtractErr(subs[s][1].v, i) # "none"
         THEN "IndexError" ELSE "none"

\* _group_submodels (v3), grouped_submodels (v2), res_dicts[tmp_key] (v1)
GroupSubmodels(im, subs, n) ==
    IF im = "v1"
    THEN [i \in 1..NumEntriesV1(subs) |->
            [s \in 1..Len(subs) |->
                DictElem([j \in 1..Len(subs[s]) |->
                            [k |-> subs[s][j].k, v |-> EntryValueV1(subs[s][j].v, i)]])]]
    ELSE [i \in 1..n |->
            [s \in 1..Len(subs) |-> DictElem(ExtractValuesForExperiment(subs[s], i))]]

\* _preprocess_nested_dicts on the value of the key
PreprocessErr(im, value, n) ==
    IF value.shape = "subs" THEN GroupErr(im, value.subs, n) ELSE "none"

PreprocessNestedDicts(im, value, n) ==
    IF value.shape = "subs" THEN RowsValue(GroupSubmodels(im, value.subs, n))
    ELSE IF im = "v3" THEN RowsValue(PreprocessRowsV3(value.rows))
    ELSE value

\* what the body of the loop raises after the preprocessing, for the
\* experiment i (from 1)
SelectErr(im, value, n, i) ==
    IF im = "v2" /\ Len(value.rows) # n THEN "ValueError"
    ELSE IF i > Len(value.rows) THEN "IndexError"
    ELSE "none"

InitNested ==
    /\ impl \in Impls
    /\ nested_src \in NestedValues
    /\ nested_dict = nested_src
    /\ nested_n \in 1..MaxRows
    /\ nested_i = 0
    /\ nested_changes = <<>>
    /\ nested_err = "none"

\* one pass of the loop `for i in range(self.num_expts)`: name_dict is
\* rebound to its preprocessed form, then the value of the experiment is
\* taken from it
CombinedPass ==
    /\ nested_err = "none"
    /\ nested_i < nested_n
    /\ LET e1 == PreprocessErr(impl, nested_dict, nested_n)
           nd == PreprocessNestedDicts(impl, nested_dict, nested_n)
           e2 == SelectErr(impl, nd, nested_n, nested_i + 1)
       IN  IF e1 # "none"
           THEN /\ nested_err' = e1
                /\ UNCHANGED <<nested_dict, nested_i, nested_changes>>
           ELSE IF e2 # "none"
           THEN /\ nested_err' = e2
                /\ nested_dict' = nd
                /\ UNCHANGED <<nested_i, nested_changes>>
           ELSE /\ nested_dict' = nd
                /\ nested_changes' = Append(nested_changes, nd.rows[nested_i + 1])
                /\ nested_i' = nested_i + 1
                /\ UNCHANGED nested_err
    /\ UNCHANGED <<impl, nested_src, nested_n>>

\* self.list_of_param_dict_change = list_of_param_dict_change
CombinedDone ==
    /\ nested_err = "none"
    /\ nested_i = nested_n
    /\ nested_err' = "done"
    /\ UNCHANGED <<impl, nested_src, nested_dict, nested_n, nested_i, nested_changes>>

NextNested ==
    \/ CombinedPass /\ NestedFrame
    \/ CombinedDone /\ NestedFrame

InitSpecNested == InitNested /\ NestedOthers

SpecNested == InitSpecNested /\ [][NextNested]_vars

(***************************************************************************)
(* update_config_entries(base, change) (_update_config_entries in v1).     *)
(* A configuration value is a tree [leaf, x, kids]: a scalar x, or a dict  *)
(* with the entries kids (a function of its keys).  The keys of a dict are *)
(* visited in the order of ConfigKeys.  A dict inside change is not empty. *)
(***************************************************************************)
MaxDepth == 2    \* deepest nesting of the dicts

ConfigKeys == <<"ncpus", "modules">>

BaseScalars == {1}

ChangeScalars == {2}

ScalarNode(x) == [leaf |-> TRUE, x |-> x, kids |-> <<>>]
DictNode(f) == [leaf |-> FALSE, x |-> 0, kids |-> f]

KeySets == SUBSET {ConfigKeys[j] : j \in 1..Len(ConfigKeys)}

\* the dicts nested at most d deep, with scalars from S; below the top no
\* dict is empty
RECURSIVE DictsUpTo(_, _)
DictsUpTo(S, d) ==
    IF d = 0 THEN {}
    ELSE LET values == {ScalarNode(x) : x \in S} \cup DictsUpTo(S, d - 1)
         IN  UNION {{DictNode(f) : f \in [ks -> values]} : ks \in KeySets \ {{}}}

EmptyDict == DictNode([k \in {} |-> 0])

\* base[k] = v
Put(base, k, v) ==
    DictNode([j \in DOMAIN base.kids \cup {k} |-> IF j = k THEN v ELSE base.kids[j]])

\* the condition of the recursive call
Descends(im, base, k, v) ==
    /\ ~v.leaf
    /\ k \in DOMAIN base.kids
    /\ (im = "v1" \/ ~base.kids[k].leaf)

\* the loop over change.items(), from the keys ks on: [err, base]
RECURSIVE UpdateFrom(_, _, _, _)
UpdateFrom(im, base, change, ks) ==
    IF ks = <<>> THEN [err |-> "none", base |-> base]
    ELSE LET k == Head(ks)
         IN  IF k \notin DOMAIN change.kids THEN UpdateFrom(im, base, change, Tail(ks))
             ELSE LET v == change.kids[k]
                  IN  IF Descends(im, base, k, v)
                      THEN IF base.kids[k].leaf
                           THEN [err |-> "TypeError", base |-> base]
                           ELSE LET r == UpdateFrom(im, base.kids[k], v, ConfigKeys)
                                    merged == Put(base, k, r.base)
                                IN  IF r.err # "none"
                                    THEN [err |-> r.err, base |-> merged]
                                    ELSE UpdateFrom(im, merged, change, Tail(ks))
                      ELSE UpdateFrom(im, Put(base, k, v), change, Tail(ks))

InitMerge ==
    /\ impl \in Impls
    /\ cfg_trace \in {<<b>> : b \in DictsUpTo(BaseScalars, MaxDepth) \cup {EmptyDict}}
    /\ cfg_change \in DictsUpTo(ChangeScalars, MaxDepth)
    /\ cfg_err = "none"

\* one call update_config_entries(base, change) on the same base
UpdateConfigEntries ==
    /\ cfg_err = "none"
    /\ Len(cfg_trace) < 3
    /\ LET r == UpdateFrom(impl, cfg_trace[Len(cfg_trace)], cfg_change, ConfigKeys)
       IN  /\ cfg_trace' = Append(cfg_trace, r.base)
           /\ cfg_err' = r.err
    /\ UNCHANGED <<impl, cfg_change>>

NextMerge == UpdateConfigEntries /\ MergeFrame

InitSpecMerge == InitMerge /\ MergeOthers

SpecMerge == InitSpecMerge /\ [][NextMerge]_vars

(***************************************************************************)
(* The MOM_input ChangeSet of an experiment: override_mom6_params (v2, v3) *)
(* and _update_mom6_params (v1), the same code.  A parameter file is the   *)
(* dict of its parameters; a key is the sequence of its pieces of text, so *)
(* that the prefix is a concatenation.  writefile_MOM_input(path) stores   *)
(* the param_dict of the parser object in the file at path.                *)
(***************************************************************************)
MaxApplies == 2   \* ChangeSets applied to the experiment

MomKeys == {"DT", "KH"}

MomFileNames == {"MOM_input", "MOM_override"}

OverrideMarker == "#override "

\* mutant: the key goes to the file as it is
PlainKey(k) == <<k>>

\* f"#override {k}"
OverrideKey(k) == <<OverrideMarker, k>>

\* {f"#override {k}": v for k, v in d.items()}
Overridden(d) ==
    [key \in {OverrideKey(k) : k \in DOMAIN d} |->
        LET k == CHOOSE j \in DOMAIN d : OverrideKey(j) = key IN d[k]]

\* update_MOM6_params_override
UpdateMom6ParamsOverride(param_dict_change, commt_dict) ==
    [params |-> Overridden(param_dict_change), comments |-> Overridden(commt_dict)]

\* the dicts with keys among ks and values among S
DictsOver(ks, S) == UNION {[sub -> S] : sub \in SUBSET ks}

InitMom ==
    /\ impl \in Impls
    /\ \E inp \in DictsOver(MomKeys, Vals), ovr \in DictsOver(MomKeys, {1}) :
          mom_files = [f \in MomFileNames |->
                         IF f = "MOM_input" THEN [k \in {<<j>> : j \in DOMAIN inp} |-> inp[k[1]]]
                         ELSE Overridden(ovr)]
    /\ mom_input = mom_files["MOM_input"]
    /\ mom_writes = <<>>

\* the ChangeSet param_dict of a group whose keys are those of commt_dict;
\* both dicts of the parser that read MOM_override are replaced
OverrideMom6Params ==
    /\ Len(mom_writes) < MaxApplies
    /\ \E param_dict \in DictsOver(MomKeys, Vals) \ {<<>>}, group \in SUBSET MomKeys :
          /\ DOMAIN param_dict \subseteq group
          /\ LET commt_dict == [k \in group |-> ""]
                 parser == UpdateMom6ParamsOverride(param_dict, commt_dict)
             IN  /\ mom_files' = [mom_files EXCEPT !["MOM_override"] = parser.params]
                 /\ mom_writes' = Append(mom_writes,
                                         [path |-> "MOM_override",
                                          change |-> param_dict,
                                          params |-> parser.params,
                                          comments |-> parser.comments])
    /\ UNCHANGED <<impl, mom_input>>

NextMom == OverrideMom6Params /\ MomFrame

InitSpecMom == InitMom /\ MomOthers

SpecMom == InitSpecMom /\ [][NextMom]_vars

(***************************************************************************)
(* update_nml_params / _update_nml_params with an experiment index, and    *)
(* _format_nml_params.  A number is [near, err17], the value near +        *)
(* err17 * 1e-17, so that the rounding of cos and sin is kept.  A dict is  *)
(* the sequence of its [k, v] entries in insertion order.  A line of the   *)
(* namelist file is [kind, name, v, by]: the group header, an assignment   *)
(* `name = v` written by "file" (as cloned), "f90nml" or "format", or the  *)
(* closing "/".  The text of a name is the sequence of its pieces, for the *)
(* substring test of _format_nml_params.  f90nml.patch gives the listed    *)
(* parameters of the group their new values in place and appends the ones  *)
(* the group does not hold.                                                *)
(***************************************************************************)
NamePieces ==
    [dt |-> <<"dt">>, ndtd |-> <<"n", "dt", "d">>, cosw |-> <<"cosw">>,
     sinw |-> <<"sinw">>, turning_angle |-> <<"turning", "_", "angle">>,
     dynamics_nml |-> <<"dynamics", "_", "nml">>]

FileParams == {"ndtd", "dt", "cosw", "sinw"}

ChangeKeys == {"dt", "turning_angle", "cosw"}

Angles == {0, 90, 180}

nml_group == "dynamics_nml"

Num(n) == [near |-> n, err17 |-> 0]

\* np.cos(a * np.pi / 180.0) and np.sin(a * np.pi / 180.0) in double precision
Cosw(a) ==
    CASE a = 0 -> Num(1)
      [] a = 90 -> [near |-> 0, err17 |-> 6]
      [] a = 180 -> Num(-1)

Sinw(a) ==
    CASE a = 0 -> Num(0)
      [] a = 90 -> Num(1)
      [] a = 180 -> [near |-> 0, err17 |-> 12]

\* d[k] = v on a dict
SetItem(d, k, v) ==
    IF \E j \in 1..Len(d) : d[j].k = k
    THEN [j \in 1..Len(d) |-> IF d[j].k = k THEN [k |-> k, v |-> v] ELSE d[j]]
    ELSE Append(d, [k |-> k, v |-> v])

\* mutant: turning_angle is passed on like any other parameter
RECURSIVE PatchAllGeneric(_, _)
PatchAllGeneric(change, acc) ==
    IF change = <<>> THEN acc
    ELSE PatchAllGeneric(Tail(change), SetItem(acc, Head(change).k, Head(change).v))

\* the loop that fills patch_dict[nml_group]
RECURSIVE PatchDict(_, _)
PatchDict(change, acc) ==
    IF change = <<>> THEN acc
    ELSE LET e == Head(change)
         IN  PatchDict(Tail(change),
                 IF e.k = "turning_angle"
                 THEN SetItem(SetItem(acc, "cosw", Cosw(e.v.near)), "sinw", Sinw(e.v.near))
                 ELSE SetItem(acc, e.k, e.v))

Get(d, k) == (CHOOSE e \in {d[j] : j \in 1..Len(d)} : e.k = k).v

Keys(d) == {d[j].k : j \in 1..Len(d)}

HeaderLine == [kind |-> "header", name |-> nml_group, v |-> Num(0), by |-> "file"]
EndLine == [kind |-> "end", name |-> "", v |-> Num(0), by |-> "file"]
AssignLine(name, v, by) == [kind |-> "assign", name |-> name, v |-> v, by |-> by]

\* f90nml.patch(nml_path, {nml_group: patch}, nml_path + "_tmp"), os.rename
RECURSIVE Appended(_, _, _)
Appended(lines, patch, present) ==
    IF patch = <<>> THEN lines
    ELSE Appended(IF Head(patch).k \in present THEN lines
                  ELSE Append(lines, AssignLine(Head(patch).k, Head(patch).v, "f90nml")),
                  Tail(patch), present)

F90nmlPatch(file, patch) ==
    LET body == [j \in 1..(Len(file) - 1) |->
                    IF file[j].kind = "assign" /\ file[j].name \in Keys(patch)
                    THEN AssignLine(file[j].name, Get(patch, file[j].name), "f90nml")
                    ELSE file[j]]
        present == {file[j].name : j \in {i \in 1..Len(file) : file[i].kind = "assign"}}
    IN  Append(Appended(body, patch, present), EndLine)

\* the pieces of the text of a line that can hold a parameter name
LineText(line) ==
    CASE line.kind = "header" -> <<"&">> \o NamePieces[line.name]
      [] line.kind = "assign" -> <<"    ">> \o NamePieces[line.name] \o <<" = ">>
      [] OTHER -> <<"/">>

\* tmp_param in fileread[i]
InLine(param, line) ==
    LET p == NamePieces[param]
        t == LineText(line)
    IN  \E i \in 1..Len(t) : i + Len(p) - 1 <= Len(t) /\ SubSeq(t, i, i + Len(p) - 1) = p

\* the first line that holds the name is rewritten
RewriteFirst(file, param, v) ==
    LET hits == {i \in 1..Len(file) : InLine(param, file[i])}
    IN  IF hits = {} THEN file
        ELSE [file EXCEPT ![Min(hits)] = AssignLine(param, v, "format")]

RECURSIVE FormatNmlParams(_, _)
FormatNmlParams(file, patch) ==
    IF patch = <<>> THEN file
    ELSE FormatNmlParams(RewriteFirst(file, Head(patch).k, Head(patch).v), Tail(patch))

\* the dicts with the keys of the sequence ks, in that order
RECURSIVE OrderedDicts(_)
OrderedDicts(ks) ==
    IF ks = <<>> THEN {<<>>}
    ELSE {<<[k |-> Head(ks), v |-> v]>> \o rest :
             v \in (IF Head(ks) = "turning_angle" THEN {Num(a) : a \in Angles} ELSE {Num(5)}),
             rest \in OrderedDicts(Tail(ks))}

\* the orderings of the subsets of S
Orderings(S) ==
    {s \in SeqsUpTo(S, Cardinality(S)) : \A i, j \in 1..Len(s) : i # j => s[i] # s[j]}

NmlChangeSets == UNION {OrderedDicts(ks) : ks \in Orderings(ChangeKeys) \ {<<>>}}

NmlFiles ==
    {<<HeaderLine>> \o [j \in 1..Len(ks) |-> AssignLine(ks[j], Num(1), "file")] \o <<EndLine>> :
        ks \in Orderings(FileParams)}

InitNml ==
    /\ impl \in Impls
    /\ nml_file \in NmlFiles
    /\ nml_cloned = nml_file
    /\ nml_change \in NmlChangeSets
    /\ nml_patch = <<>>
    /\ nml_done = FALSE

UpdateNmlParams ==
    /\ ~nml_done
    /\ LET patch == PatchDict(nml_change, <<>>)
       IN  /\ nml_patch' = patch
           /\ nml_file' = FormatNmlParams(F90nmlPatch(nml_file, patch), patch)
    /\ nml_done' = TRUE
    /\ UNCHANGED <<impl, nml_cloned, nml_change>>

NextNml == UpdateNmlParams /\ NmlFrame

InitSpecNml == InitNml /\ NmlOthers

SpecNml == InitSpecNml /\ [][NextNml]_vars

(***************************************************************************)
(* _generate_restart_symlink (v1 and v3, the same code).  What lies at     *)
(* dest is [kind, abs, resolves, from_cwd]: nothing, a file, a directory   *)
(* or a symlink; the text of a symlink is an absolute or a relative path;  *)
(* resolves says that its target exists (os.path.exists(dest)), from_cwd   *)
(* that the text names an existing path when read from the working         *)
(* directory of the driver (os.path.exists(os.readlink(dest))).  For an    *)
(* absolute text the two agree.                                            *)
(***************************************************************************)
MaxLinkCalls == 2   \* calls of the method on one experiment

Nothing == [kind |-> "none", abs |-> TRUE, resolves |-> FALSE, from_cwd |-> FALSE]

Symlink(abs, resolves, from_cwd) ==
    [kind |-> "link", abs |-> abs, resolves |-> resolves, from_cwd |-> from_cwd]

DestStates ==
    {Nothing}
    \cup {[kind |-> k, abs |-> TRUE, resolves |-> TRUE, from_cwd |-> TRUE] : k \in {"file", "dir"}}
    \cup {Symlink(TRUE, r, r) : r \in BOOLEAN}
    \cup {Symlink(FALSE, r, c) : r \in BOOLEAN, c \in BOOLEAN}

StartFrom == {"rest", "000"}

IsLink(d) == d.kind = "link"

\* os.path.exists(dest)
Exists(d) == d.kind \in {"file", "dir"} \/ (IsLink(d) /\ d.resolves)

\* the condition under which the link is generated
Regenerate(d, force) ==
    \/ ~IsLink(d)
    \/ force
    \/ (IsLink(d) /\ ~d.from_cwd)

InitLink ==
    /\ impl \in Impls
    /\ lnk_dest \in DestStates
    /\ lnk_before = lnk_dest
    /\ lnk_start \in StartFrom
    /\ lnk_force \in BOOLEAN
    /\ lnk_ctrl \in BOOLEAN
    /\ lnk_ops = <<>>
    /\ lnk_calls = 0
    /\ lnk_err = "none"

GenerateRestartSymlink ==
    /\ lnk_calls < MaxLinkCalls
    /\ lnk_err = "none"
    /\ lnk_calls' = lnk_calls + 1
    /\ lnk_before' = lnk_dest
    /\ IF lnk_start # "rest" /\ Regenerate(lnk_dest, lnk_force)
       THEN IF Exists(lnk_dest) \/ IsLink(lnk_dest)
            THEN IF lnk_dest.kind = "dir"
                 THEN /\ lnk_err' = "IsADirectoryError"
                      /\ lnk_ops' = <<>>
                      /\ UNCHANGED lnk_dest
                 ELSE /\ lnk_ops' = <<"remove", "symlink">>
                      /\ lnk_dest' = Symlink(TRUE, lnk_ctrl, lnk_ctrl)
                      /\ UNCHANGED lnk_err
            ELSE /\ lnk_ops' = <<"symlink">>
                 /\ lnk_dest' = Symlink(TRUE, lnk_ctrl, lnk_ctrl)
                 /\ UNCHANGED lnk_err
       ELSE /\ lnk_ops' = <<>>
            /\ UNCHANGED <<lnk_dest, lnk_err>>
    /\ UNCHANGED <<impl, lnk_start, lnk_force, lnk_ctrl>>

NextLink == GenerateRestartSymlink /\ LinkFrame

InitSpecLink == InitLink /\ LinkOthers

SpecLink == InitSpecLink /\ [][NextLink]_vars

(***************************************************************************)
(* _update_metadata_description, called by _update_metadata_yaml_perturb   *)
(* on the metadata.yaml of the experiment (v1 and v3, the same test).  A   *)
(* text is the sequence of its pieces [t, a, b]: a newline, the text of    *)
(* the control run, the note on the control run (path a, branch b) and the *)
(* note on the initial condition (restart source a).  The description of   *)
(* the file is None or a text; the YAML file gives back the text it was    *)
(* given.                                                                  *)
(***************************************************************************)
MaxDescCalls == 3   \* updates of the metadata of one experiment

Newline == [t |-> "nl", a |-> "", b |-> ""]
ControlText == [t |-> "text", a |-> "", b |-> ""]
ControlNote(base_path, base_branch_name) == [t |-> "note", a |-> base_path, b |-> base_branch_name]
InitialConditionNote(restartpath) == [t |-> "ic", a |-> restartpath, b |-> ""]

RestartSources == {"rest", "/ctrl/archive/restart000"}

NoDescription == <<[t |-> "None", a |-> "", b |-> ""]>>

\* tmp_string1 and tmp_string2
TmpString1 == <<Newline, ControlNote("/ctrl", "main")>>
TmpString2(restartpath) == <<Newline, InitialConditionNote(restartpath)>>

\* str.strip()
RECURSIVE LStrip(_)
LStrip(s) == IF s # <<>> /\ Head(s) = Newline THEN LStrip(Tail(s)) ELSE s

RECURSIVE RStrip(_)
RStrip(s) ==
    IF s # <<>> /\ s[Len(s)] = Newline THEN RStrip(SubSeq(s, 1, Len(s) - 1)) ELSE s

Strip(s) == RStrip(LStrip(s))

\* a in b, for texts
IsIn(a, b) ==
    \E i \in 1..(Len(b) + 1) : i + Len(a) - 1 <= Len(b) /\ SubSeq(b, i, i + Len(a) - 1) = a

\* mutant: the notes are appended whatever the description holds
NeverPresent(note, desc) == FALSE

\* tmp_string.strip() in desc.strip()
Present(note, desc) == IsIn(Strip(note), Strip(desc))

UpdateMetadataDescription(description, restartpath) ==
    LET desc0 == IF description = NoDescription THEN <<>> ELSE description
        desc1 == IF ~Present(TmpString1, desc0) THEN desc0 \o TmpString1 ELSE desc0
    IN  IF ~Present(TmpString2(restartpath), desc1)
        THEN desc1 \o TmpString2(restartpath) ELSE desc1

\* the descriptions of a cloned experiment: that of the control run, with or
\* without the notes of an earlier restart source
ClonedDescriptions ==
    {NoDescription, <<>>, <<ControlText>>, <<ControlText, Newline>>}
    \cup {<<ControlText>> \o TmpString1 \o TmpString2(r) \o tail :
             r \in RestartSources, tail \in {<<>>, <<Newline>>}}

InitDesc ==
    /\ impl \in Impls
    /\ md_restart \in RestartSources
    /\ md_trace \in {<<d>> : d \in ClonedDescriptions}

UpdateMetadataYamlPerturb ==
    /\ Len(md_trace) <= MaxDescCalls
    /\ md_trace' = Append(md_trace,
                          UpdateMetadataDescription(md_trace[Len(md_trace)], md_restart))
    /\ UNCHANGED <<impl, md_restart>>

NextDesc == UpdateMetadataYamlPerturb /\ DescFrame

InitSpecDesc == InitDesc /\ DescOthers

SpecDesc == InitSpecDesc /\ [][NextDesc]_vars

(***************************************************************************)
(* _update_configuration_files on the ChangeSet param_dict that the driver *)
(* holds in its list (setup_expts passes the object of the list itself).   *)
(* A flat dict is a function of its keys.  The appliers of the namelist,   *)
(* MOM_input, nuopc.runseq and nuopc.runconfig files read param_dict into  *)
(* dicts of their own; update_config_params assigns to it.                 *)
(***************************************************************************)
FileKinds == {"MOM_input", "ice_in", "nuopc.runseq", "config.yaml", "nuopc.runconfig"}

ConfigParams == {"ncpus", "jobname", "walltime"}

ConfigValues == {"expt1", "48"}

ExptNames == {"expt1", "expt2"}

FlatDicts == UNION {[ks -> ConfigValues] : ks \in SUBSET ConfigParams}

\* param_dict[k] = v
Assigned(d, k, v) == [j \in DOMAIN d \cup {k} |-> IF j = k THEN v ELSE d[j]]

\* update_config_entries on dicts without nesting
UpdateFlat(base, change) ==
    [k \in DOMAIN base \cup DOMAIN change |-> IF k \in DOMAIN change THEN change[k] ELSE base[k]]

\* the ChangeSet once the applier of the file kind has returned
ParamDictAfter(kind, param_dict, expt_name) ==
    IF kind = "config.yaml" THEN Assigned(param_dict, "jobname", expt_name) ELSE param_dict

InitApply ==
    /\ impl \in Impls
    /\ cs_kind \in FileKinds
    /\ cs_emitted \in FlatDicts \ {<<>>}
    /\ cs_held = cs_emitted
    /\ cs_expt \in ExptNames
    /\ cs_file \in {f \in FlatDicts : "jobname" \in DOMAIN f => f["jobname"] = "expt1"}
    /\ cs_applied = FALSE

\* the file written is that of the kind; for config.yaml it is cs_file
UpdateConfigurationFilesOnce ==
    /\ ~cs_applied
    /\ cs_applied' = TRUE
    /\ cs_held' = ParamDictAfter(cs_kind, cs_held, cs_expt)
    /\ cs_file' = IF cs_kind = "config.yaml"
                  THEN UpdateFlat(cs_file, Assigned(cs_held, "jobname", cs_expt))
                  ELSE cs_file
    /\ UNCHANGED <<impl, cs_kind, cs_emitted, cs_expt>>

NextApply == UpdateConfigurationFilesOnce /\ ApplyFrame

InitSpecApply == InitApply /\ ApplyOthers

SpecApply == InitSpecApply /\ [][NextApply]_vars

(***************************************************************************)
(* The keys of a single-file parameter block of v1: _process_params_blocks *)
(* with _handle_nml_group and _handle_runconfig_group.  A key is the       *)
(* sequence of the pieces of its text, cut so that startswith and endswith *)
(* on the pieces are those on the text.  A key that begins with the name   *)
(* of the block holds a list of names, any other key holds the parameters  *)
(* {p: [1, 2]} of a group, two experiments in either mode.                 *)
(***************************************************************************)
BlockNames == {"ice_in", "nuopc.runconfig"}

BlockKeys(k) ==
    IF k = "ice_in"
    THEN {<<k, "_dir", "s">>, <<k, "_dir", "_test">>, <<k, "_0">>,
          <<"shortwave", "_nml">>, <<"shortwave", "_nml", "_combo">>, <<"shortwave">>}
    ELSE {<<k, "_dir", "s">>, <<"ALLCOMP", "_attributes">>, <<"OCN", "_modelio">>,
          <<"ALLCOMP", "_attributes", "_combo">>, <<"PELAYOUT">>}

DirNames == {"test_a", "test_b"}

GroupExpts == <<"p_1", "p_2">>

nml_suffix == <<"_nml">>
combo_suffix == <<"_combo">>
runconfig_suffix1 == <<"_attributes">>
runconfig_suffix2 == <<"_modelio">>

StartsWith(s, prefix) == Len(prefix) <= Len(s) /\ SubSeq(s, 1, Len(prefix)) = prefix
EndsWith(s, suffix) ==
    Len(suffix) <= Len(s) /\ SubSeq(s, Len(s) - Len(suffix) + 1, Len(s)) = suffix

\* expt_dir_name = k + "_dirs"
ExptDirName(k) == <<k, "_dir", "s">>

HoldsList(k, key) == StartsWith(key, <<k>>)

\* the branch a handler takes for a key: "group", "dirs" or "ValueError"
HandleNmlGroup(k, key) ==
    IF EndsWith(key, nml_suffix) \/ EndsWith(key, combo_suffix) THEN "group"
    ELSE IF StartsWith(key, ExptDirName(k)) THEN "dirs"
    ELSE "ValueError"

HandleRunconfigGroup(k, key) ==
    IF \/ ~EndsWith(key, runconfig_suffix1)
       \/ EndsWith(key, runconfig_suffix2)
       \/ EndsWith(key, combo_suffix)
    THEN "group"
    ELSE IF StartsWith(key, ExptDirName(k)) THEN "dirs"
    ELSE "ValueError"

HandleGroup(k, key) ==
    IF k = "ice_in" THEN HandleNmlGroup(k, key) ELSE HandleRunconfigGroup(k, key)

InitGroups ==
    /\ impl = "v1"
    /\ gv_block \in BlockNames
    /\ gv_keys \in {ks \in BlockKeys(gv_block) \X BlockKeys(gv_block) : ks[1] # ks[2]}
    /\ gv_names \in SeqsUpTo(DirNames, 3) \ {<<>>}
    /\ gv_pos = 0
    /\ gv_previous_key = <<>>
    /\ gv_out = <<>>
    /\ gv_err = "none"

\* _process_params_group on the next key of the block, with
\* _process_parameter_group_common and setup_expts when the key is taken
\* for a group
ProcessParamsGroup ==
    /\ gv_err = "none"
    /\ gv_pos < 2
    /\ LET key == gv_keys[gv_pos + 1]
           branch == HandleGroup(gv_block, key)
           named == gv_previous_key # <<>> /\ StartsWith(gv_previous_key, ExptDirName(gv_block))
       IN  CASE branch = "ValueError" ->
                  /\ gv_err' = "ValueError"
                  /\ UNCHANGED <<gv_pos, gv_previous_key, gv_out>>
             [] branch = "dirs" ->
                  /\ gv_out' = Append(gv_out, [did |-> "skipped", names |-> <<>>])
                  /\ gv_pos' = gv_pos + 1
                  /\ gv_previous_key' = key
                  /\ UNCHANGED gv_err
             [] branch = "group" /\ HoldsList(gv_block, key) ->
                  /\ gv_err' = "AttributeError"
                  /\ UNCHANGED <<gv_pos, gv_previous_key, gv_out>>
             [] branch = "group" /\ ~HoldsList(gv_block, key) /\ named
                   /\ Len(gv_names) # Len(GroupExpts) ->
                  /\ gv_err' = "ValueError"
                  /\ UNCHANGED <<gv_pos, gv_previous_key, gv_out>>
             [] OTHER ->
                  /\ gv_out' = Append(gv_out, [did |-> "expanded",
                                               names |-> IF named THEN gv_names ELSE GroupExpts])
                  /\ gv_pos' = gv_pos + 1
                  /\ gv_previous_key' = key
                  /\ UNCHANGED gv_err
    /\ UNCHANGED <<impl, gv_block, gv_keys, gv_names>>

NextGroups == ProcessParamsGroup /\ GroupsFrame

InitSpecGroups == InitGroups /\ GroupsOthers

SpecGroups == InitSpecGroups /\ [][NextGroups]_vars

(***************************************************************************)
(* The run of the control experiment: manage_ctrl_expt (v1) from the       *)
(* scheduler query on, and pbs_job_runs as manage_experiment calls it      *)
(* (v3).  The calls made to the scheduler, to git and to payu are kept in  *)
(* order in ct_calls.                                                      *)
(***************************************************************************)
base_path == <<"scratch", "test", "expt1">>

\* mutant: the changes are committed whatever the duplicate check said
CommitAlways(duplicated) == TRUE

\* `if not duplicated_bool:` before the commit
CommitDue(duplicated) == ~duplicated

InitCtrl ==
    /\ impl \in {"v1", "v3"}
    /\ ct_check \in BOOLEAN
    /\ ct_dirty \in BOOLEAN
    /\ ct_work \in BOOLEAN
    /\ ct_nruns \in 0..MaxRuns
    /\ ct_done \in 0..MaxRuns
    /\ ct_jobs = {}
    /\ ct_dup = FALSE
    /\ ct_calls = <<>>
    /\ ct_pc = "query"

\* pbs_jobs = output_existing_pbs_jobs()
CtrlOutputExistingPbsJobs ==
    /\ ct_pc = "query"
    /\ \E jobs \in SUBSET JobRecords :
          /\ Cardinality(jobs) <= 1
          /\ ct_jobs' = jobs
    /\ ct_calls' = Append(ct_calls, Call("qstat", 0))
    /\ ct_pc' = "check"
    /\ UNCHANGED <<impl, ct_check, ct_dirty, ct_work, ct_nruns, ct_done, ct_dup>>

\* duplicated_bool, from the check when it is enabled
CtrlDuplicateCheck ==
    /\ ct_pc = "check"
    /\ ct_dup' = (IF ct_check THEN CheckDuplicatedJobs(ct_jobs, base_path) ELSE FALSE)
    /\ ct_pc' = "commit"
    /\ UNCHANGED <<impl, ct_check, ct_dirty, ct_work, ct_nruns, ct_done, ct_jobs, ct_calls>>

\* check_and_commit_changes: a commit when some file is staged
CtrlCheckAndCommitChanges ==
    /\ ct_pc = "commit"
    /\ ct_calls' = (IF CommitDue(ct_dup) /\ ct_dirty
                    THEN Append(ct_calls, Call("commit", 0)) ELSE ct_calls)
    /\ ct_dirty' = (IF CommitDue(ct_dup) THEN FALSE ELSE ct_dirty)
    /\ ct_pc' = "start"
    /\ UNCHANGED <<impl, ct_check, ct_work, ct_nruns, ct_done, ct_jobs, ct_dup>>

\* _start_experiment_runs on the control experiment, _clean_workspace
\* included
CtrlStartExperimentRuns ==
    /\ ct_pc = "start"
    /\ LET newruns == NewRuns(ct_nruns, ct_done)
           swept == IF ~ct_dup /\ ct_work
                    THEN Append(ct_calls, Call("payu sweep", 0)) ELSE ct_calls
           run == /\ ~ct_dup
                  /\ impl = "v1" => ct_nruns > 0
                  /\ newruns > 0
       IN  ct_calls' = (IF run THEN Append(swept, Call("payu run", newruns)) ELSE swept)
    /\ ct_work' = (IF ct_dup THEN ct_work ELSE FALSE)
    /\ ct_pc' = "done"
    /\ UNCHANGED <<impl, ct_check, ct_dirty, ct_nruns, ct_done, ct_jobs, ct_dup>>

NextCtrl ==
    \/ CtrlOutputExistingPbsJobs /\ CtrlFrame
    \/ CtrlDuplicateCheck /\ CtrlFrame
    \/ CtrlCheckAndCommitChanges /\ CtrlFrame
    \/ CtrlStartExperimentRuns /\ CtrlFrame

InitSpecCtrl == InitCtrl /\ CtrlOthers

SpecCtrl == InitSpecCtrl /\ [][NextCtrl]_vars

(***************************************************************************)
(* Claims about the expander, checked under SpecExpand.                    *)
(***************************************************************************)
RECURSIVE SumOfLengths(_)
SumOfLengths(nd) ==
    IF nd = <<>> THEN 0
    ELSE (IF Head(nd).v.list THEN Len(Head(nd).v.items) ELSE 1) + SumOfLengths(Tail(nd))

ListLengths(nd) == {Len(nd[j].v.items) : j \in {x \in 1..Len(nd) : nd[x].v.list}}
Finished == epc \in {"expanded", "error"}

\* C7: in individual mode a group whose parameters have list lengths
\* L1..Lk (a scalar counts as 1) yields exactly L1+...+Lk ChangeSets, and
\* every ChangeSet has exactly one key.
C7_IndividualEmitsSumOfLengths ==
    (epc = "expanded" /\ ~combo) =>
        /\ Len(param_dict_change_list) = SumOfLengths(name_dict)
        /\ \A i \in 1..Len(param_dict_change_list) : Len(param_dict_change_list[i]) = 1

\* a list of two values followed by a scalar has been expanded into three
\* one-key ChangeSets
C7_Witness ==
    /\ epc = "expanded" /\ ~combo
    /\ Len(name_dict) = 2
    /\ name_dict[1].v.list /\ Len(name_dict[1].v.items) = 2
    /\ ~name_dict[2].v.list
    /\ Len(param_dict_change_list) = 3

\* C8: a combo group whose list-valued parameters all have the same length
\* L yields exactly L ChangeSets, and ChangeSet i holds every key of the
\* group, each list-valued key mapped to the i-th element of its list.
\* (In v3 the count comes from the list of directory names, taken here of
\* length L.)
C8_ComboZipsEveryKey ==
    (/\ combo /\ Finished /\ impl \in {"v1", "v3"}
     /\ Cardinality(ListLengths(name_dict)) = 1
     /\ impl = "v3" => ListLengths(name_dict) = {num_expts}) =>
        LET L == CHOOSE n \in ListLengths(name_dict) : TRUE
        IN  /\ epc = "expanded"
            /\ Len(param_dict_change_list) = L
            /\ \A i \in 1..Len(param_dict_change_list) :
                  /\ Len(param_dict_change_list[i]) = Len(name_dict)
                  /\ \A j \in 1..Len(name_dict) :
                        /\ j <= Len(param_dict_change_list[i])
                        /\ param_dict_change_list[i][j].k = name_dict[j].k
                        /\ name_dict[j].v.list =>
                              param_dict_change_list[i][j].v = name_dict[j].v.items[i]

\* C9: in combo mode, when two list-valued parameters of the group differ
\* in length, the expansion ends in an error and produces no ChangeSet
\* (stated for groups whose lists are all non-empty, where a ChangeSet
\* produced all the same holds a truncated list).
C9_ComboMismatchFails ==
    (/\ combo /\ Finished /\ impl \in {"v1", "v2"}
     /\ 0 \notin ListLengths(name_dict)
     /\ Cardinality(ListLengths(name_dict)) > 1) =>
        /\ epc = "error"
        /\ param_dict_change_list = <<>>

\* C10: for an individual-mode group the count N of _cal_num_expts equals
\* the number of ChangeSets _generate_individual_dicts produces.
C10_CountEqualsChangeSets ==
    (epc = "expanded" /\ ~combo) => num_expts = Len(param_dict_change_list)

\* C28: after the individual-mode expansion of a group the list of group
\* names has the length of the list of ChangeSets, so that every experiment
\* index has a group name, also when the group mixes lists and scalars.
C28_GroupNamePerChangeSet ==
    (epc = "expanded" /\ ~combo) =>
        Len(append_group_list) = Len(param_dict_change_list)

(***************************************************************************)
(* Claims about the duplicate check and the submission, checked under      *)
(* SpecPbs.                                                                *)
(***************************************************************************)
\* the folder an Error_Path lies in: the path without host and file name
ContainingFolder(ep) == [i \in 1..(Len(ep) - 2) |-> ep[i + 1]]
Decided == ppc \in {"commit", "start", "done"}
RunCalls == SelectSeq(calls, LAMBDA c : c.op = "payu run")

\* C4: the duplicate check returns True if and only if some record whose
\* job_state is not F or S has an Error_Path whose containing folder is the
\* target path; records in state F or S, and records whose folder has the
\* same name under another parent directory, never make it True.
C4_IsDuplicateIffActiveSameFolder ==
    (Decided /\ check_duplicate_jobs) =>
        (duplicated_bool <=>
            \E j \in pbs_jobs : /\ j.job_state \notin {"F", "S"}
                                /\ ContainingFolder(j.Error_Path) = path)

\* the check said False although a finished job lies in the target folder
\* and an active job lies in a folder of the same name under another parent
C4_Witness ==
    /\ Decided /\ check_duplicate_jobs /\ ~duplicated_bool
    /\ path = <<"scratch", "test", "expt1">>
    /\ \E j \in pbs_jobs : j.job_state = "F" /\ ContainingFolder(j.Error_Path) = path
    /\ \E j \in pbs_jobs : /\ j.job_state = "R"
                           /\ ContainingFolder(j.Error_Path) = <<"scratch", "other", "expt1">>

\* C5: `payu run` is called only if the duplicate check was disabled or
\* returned False and n_runs = nruns - doneruns is greater than 0, and then
\* with exactly that n_runs; for a duplicate or n_runs <= 0 it is not called.
C5_SubmitOnlyWhenDue ==
    LET n_runs == nruns - doneruns
        duplicate == check_duplicate_jobs /\ CheckDuplicatedJobs(pbs_jobs, path)
    IN  /\ \A i \in 1..Len(RunCalls) :
              ~duplicate /\ n_runs > 0 /\ RunCalls[i].n = n_runs
        /\ (ppc = "done" /\ (duplicate \/ n_runs <= 0)) => RunCalls = <<>>

\* one run was asked for: two configured, one finished
C5_Witness ==
    /\ ppc = "done" /\ nruns = 2 /\ doneruns = 1
    /\ RunCalls = <<Call("payu run", 1)>>

(***************************************************************************)
(* Claims about the driver, checked under SpecCross (a cross-file block    *)
(* set up when none of its experiment directories exists) and SpecRerun    *)
(* (a block run again when all of them exist).                             *)
(***************************************************************************)
Ended == dpc \in {"done", "aborted"}

\* some unit of the block reaches setup_expts
HasWork == ProcessedUnits # {}

\* C1 (v1, v2): in a cross-file block none of whose experiment directories
\* exists beforehand, clone is invoked exactly once per experiment index:
\* never twice, and never zero times whatever the first group of the block is.
C1_CloneExactlyOncePerExperiment ==
    (impl \in {"v1", "v2"} /\ cb /\ HasWork) =>
        \A i \in Expts :
            /\ clones[DistinctNames[i]] <= 1
            /\ Ended => clones[DistinctNames[i]] = 1

\* C2 (v1, v3): in a cross-file block the metadata update, the jobname update
\* and the duplicate check with submission run only at the pass with
\* tmp_count = group_count, and each runs exactly once per experiment per block.
C2_BarrierStageOncePerExperiment ==
    (impl \in {"v1", "v3"} /\ cb /\ HasWork) =>
        \A i \in Expts :
            /\ metadata_updates[i] <= 1 /\ jobname_updates[i] <= 1 /\ decisions[i] <= 1
            /\ dpc \in {"metadata", "submit"} => tmp_count = group_count
            /\ dpc = "done" =>
                  /\ metadata_updates[i] = 1
                  /\ jobname_updates[i] = 1
                  /\ decisions[i] = 1

\* C3 (v1, v3): in a cross-file block the submission of experiment i is decided
\* only after the ChangeSet of every unit of the block has been written for i,
\* and no ChangeSet is written for i after that decision.
C3_SubmitAfterEveryUnitApplied ==
    (impl \in {"v1", "v3"} /\ cb) =>
        \A i \in Expts :
            decisions[i] > 0 =>
                /\ \A u \in ProcessedUnits : <<u, i>> \in applied
                /\ \A u \in ProcessedUnits : u <= decided_at[i]

\* every experiment directory was there when the run began (none was cloned since)
AllExisted == exists = Paths /\ \A p \in Paths : clones[p] = 0

\* C6 as stated: running again with every experiment directory there makes
\* no clone call and at most one submit call per experiment path, for any
\* block and any groups.
C6_AtMostOneSubmitPerPath ==
    exists = Paths =>
        \A p \in Paths : clones[p] = 0 /\ submits[p] <= 1

\* C6 amended: running again with every experiment directory there makes no
\* clone call and at most one submit call per experiment of each group of a
\* single-file block and per experiment of each cross-file block.
C6_AtMostOneSubmitPerExperimentOfAPass ==
    exists = Paths =>
        /\ \A p \in Paths : clones[p] = 0
        /\ \A i \in Expts : pass_submits[i] <= 1

\* a cross-file block of two processed units, run again, has submitted every
\* experiment once
C6_Witness ==
    /\ AllExisted /\ cb /\ dpc = "done"
    /\ Cardinality(ProcessedUnits) >= 2
    /\ \A i \in Expts : pass_submits[i] = 1 /\ decisions[i] = 1

(***************************************************************************)
(* Claims about the user-defined directory names, checked under            *)
(* SpecValidate.                                                           *)
(***************************************************************************)
\* the number of experiments the lists of a group declare
DeclaredN(g) == IF g.combo THEN CalNumExpts(g.nd, TRUE) ELSE Len(IndividualChanges(g.nd))

\* C11: a non-empty list of directory names whose length differs from the number of
\* experiments of the group it names ends the run with a validation error
\* before any directory of the block (single-file: of the group) is cloned
\* and before any configuration file is written.
C11_WrongLengthRaisesBeforeSetup ==
    \A u \in 1..vpos :
        (dirs_len > 0 /\ dirs_len # DeclaredN(vblock[u])) =>
            /\ vpc = "failed" /\ verr = "ValueError"
            /\ IF vcb THEN vcloned = {} /\ vwritten = {}
               ELSE \A i \in 1..(MaxLen * MaxKeys) :
                       <<u, i>> \notin vcloned /\ <<u, i>> \notin vwritten

(***************************************************************************)
(* Claims about the names, checked under SpecNaming and SpecNamingAlike.   *)
(***************************************************************************)
\* the parameter dict of a ChangeSet: its (key, value) pairs, order aside
ParameterDict(cs) == {<<cs[j].k, cs[j].v>> : j \in 1..Len(cs)}

\* C12: without a user-defined list, two ChangeSets get the same name if and
\* only if their parameter dicts are equal, also when keys or values hold
\* underscores or values of different types print alike.
C12_SynthesisInjective ==
    ~nuser.given =>
        \A i \in 1..Len(nnames), j \in 1..Len(nnames) :
            (nnames[i] = nnames[j]) <=> (ParameterDict(nchanges[i]) = ParameterDict(nchanges[j]))

\* the (parameter, value) position of the i-th experiment of individual mode:
\* parameter by parameter in declaration order, values in list order
RECURSIVE ParamOf(_, _, _)
ParamOf(nd, j, i) ==
    LET len == IF nd[j].v.list THEN Len(nd[j].v.items) ELSE 1
    IN  IF i <= len THEN <<j, i>> ELSE ParamOf(nd, j + 1, i - len)

\* key_value of the i-th value of every parameter from the j-th on, joined
RECURSIVE ColumnName(_, _, _)
ColumnName(nd, i, j) ==
    LET kv == KeyText(nd[j].k) \o Underscore \o nd[j].v.items[i].text
    IN  IF j = Len(nd) THEN kv ELSE kv \o Underscore \o ColumnName(nd, i, j + 1)

C14_FailureIsolated ==
    fault # "none" => dpc # "aborted"

(***************************************************************************)
(* Claims about the scheduler snapshot, checked under SpecSnapshot.        *)
(***************************************************************************)
RunEvents == {n \in 1..Len(slog) : slog[n].op = "payu run"}

\* C15: every payu run is immediately preceded by the status query of its own
\* decision, and the dump a decision is taken on was made after every earlier
\* payu run of the run: it holds the job of each of them.
C15_FreshSnapshotPerDecision ==
    /\ \A n \in RunEvents :
          n > 1 /\ slog[n - 1] = Event("qstat", slog[n].at)
    /\ spc = "decide" =>
          /\ slog[Len(slog)] = Event("qstat", scur)
          /\ \A n \in RunEvents : JobOf(slog[n].at) \in snap

\* a path submitted earlier in the run comes up for decision again, with the
\* duplicate check enabled
C15_Witness ==
    /\ check_duplicate_jobs /\ spc = "decide"
    /\ \E m \in RunEvents : slog[m].at = scur

(***************************************************************************)
(* Claims about the parser of the scheduler dump, checked under SpecParse. *)
(***************************************************************************)
\* the Job Id line that the line n of the dump belongs to
RECURSIVE JobLineOf(_, _)
JobLineOf(d, n) == IF d[n].kind = "job" THEN n ELSE JobLineOf(d, n - 1)

\* the text of the continuation lines that follow the line n
RECURSIVE Continuation(_, _)
Continuation(d, n) ==
    IF n + 1 > Len(d) \/ d[n + 1].kind \in {"job", "pair"} THEN <<>>
    ELSE (IF d[n + 1].kind = "cont" THEN d[n + 1].text ELSE <<>>) \o Continuation(d, n + 1)

\* the pair lines that give the value of their key in their job: the last of
\* the key in a job whose id appears once
ValueLines(d) ==
    {n \in 1..Len(d) :
        /\ d[n].kind = "pair"
        /\ \A m \in 1..Len(d) : (d[m].kind = "job" /\ d[m].id = d[JobLineOf(d, n)].id)
                                    => m = JobLineOf(d, n)
        /\ \A m \in (n + 1)..Len(d) :
              (d[m].kind = "pair" /\ d[m].key = d[n].key) => JobLineOf(d, m) # JobLineOf(d, n)}

\* C16: the parsed dump holds one record per Job Id line, and the record of a
\* job holds every key = value attribute listed for it, the last one of each
\* job and of the dump included, the value being the first-line value followed
\* by the text of its continuation lines.
C16_EveryAttributeParsed ==
    job_id = "returned" =>
        /\ DOMAIN parsed_jobs = {pbs_job_file[n].id :
                                    n \in {m \in 1..Len(pbs_job_file) : pbs_job_file[m].kind = "job"}}
        /\ \A n \in ValueLines(pbs_job_file) :
              LET id == pbs_job_file[JobLineOf(pbs_job_file, n)].id
                  key == pbs_job_file[n].key
              IN  /\ key \in DOMAIN parsed_jobs[id]
                  /\ parsed_jobs[id][key] = pbs_job_file[n].value \o Continuation(pbs_job_file, n)

(***************************************************************************)
(* Claims about nested values in combo mode, checked under SpecNested.     *)
(***************************************************************************)
\* C17: for a list of lists with one sub-list per experiment, the ChangeSet
\* of every experiment i holds exactly the i-th sub-list, in its order,
\* whatever the parity of i.
C17_SubListPerExperiment ==
    (/\ nested_src.shape = "rows"
     /\ Len(nested_src.rows) = nested_n
     /\ nested_err # "none")
        => /\ nested_err = "done"
           /\ \A i \in 1..nested_n : nested_changes[i] = nested_src.rows[i]

\* the leaf lists of the submodels hold one element per experiment
WellFormedSubmodels(subs, n) ==
    \A s \in 1..Len(subs) : \A j \in 1..Len(subs[s]) :
        LET leaf == subs[s][j].v
        IN  /\ leaf.kind = "list" => Len(leaf.items) = n
            /\ leaf.kind = "lol" => \A r \in 1..Len(leaf.rows) : Len(leaf.rows[r]) = n

\* the leaf of a submodel as the experiment i is to see it
LeafOfExperiment(leaf, i) ==
    CASE leaf.kind = "scalar" -> leaf
      [] leaf.kind = "list" -> ScalarLeaf(leaf.items[i])
      [] leaf.kind = "lol" -> ListLeaf([r \in 1..Len(leaf.rows) |-> leaf.rows[r][i]])

\* C18: for a list of S submodels whose leaf lists hold one element per
\* experiment, the ChangeSet of every experiment i holds a list of S dicts in
\* the order of the submodels, each leaf list replaced by its i-th element,
\* each list-of-lists leaf by the list of the i-th elements of its sub-lists,
\* scalar leaves kept.
C18_SubmodelsPerExperiment ==
    (/\ nested_src.shape = "subs"
     /\ WellFormedSubmodels(nested_src.subs, nested_n)
     /\ nested_err # "none")
        => /\ nested_err = "done"
           /\ \A i \in 1..nested_n :
                 /\ Len(nested_changes[i]) = Len(nested_src.subs)
                 /\ \A s \in 1..Len(nested_src.subs) :
                       /\ ~nested_changes[i][s].atom
                       /\ nested_changes[i][s].d =
                             [j \in 1..Len(nested_src.subs[s]) |->
                                 [k |-> nested_src.subs[s][j].k,
                                  v |-> LeafOfExperiment(nested_src.subs[s][j].v, i)]]

(***************************************************************************)
(* Claims about update_config_entries, checked under SpecMerge.            *)
(***************************************************************************)
\* every leaf path of change holds the value of change in base
RECURSIVE HoldsChange(_, _)
HoldsChange(base, change) ==
    \A k \in DOMAIN change.kids :
        /\ ~base.leaf
        /\ k \in DOMAIN base.kids
        /\ IF change.kids[k].leaf THEN base.kids[k] = change.kids[k]
           ELSE HoldsChange(base.kids[k], change.kids[k])

\* the paths of change
RECURSIVE Mentioned(_)
Mentioned(change) ==
    {<<k>> : k \in DOMAIN change.kids}
    \cup UNION {{<<k>> \o p : p \in Mentioned(change.kids[k])} :
                   k \in {j \in DOMAIN change.kids : ~change.kids[j].leaf}}

\* the scalar entries of a dict, each with its key path
RECURSIVE ScalarsAt(_, _)
ScalarsAt(node, prefix) ==
    UNION {IF node.kids[k].leaf
           THEN {<<Append(prefix, k), node.kids[k].x>>}
           ELSE ScalarsAt(node.kids[k], Append(prefix, k)) :
              k \in DOMAIN node.kids}

\* the scalar entries on no path of change
Unmentioned(node, change) ==
    {e \in ScalarsAt(node, <<>>) :
        \A n \in 1..Len(e[1]) : SubSeq(e[1], 1, n) \notin Mentioned(change)}

\* C19: after update_config_entries(base, change) every leaf path of change
\* holds the value of change in base (dicts present on both sides merged,
\* absent keys created, a scalar of base replaced by the dict of change),
\* every entry of base that change does not mention is as it was, and a
\* second application of the same change leaves base as the first left it.
C19_RecursiveMerge ==
    Len(cfg_trace) > 1 =>
        /\ cfg_err = "none"
        /\ HoldsChange(cfg_trace[2], cfg_change)
        /\ Unmentioned(cfg_trace[2], cfg_change) = Unmentioned(cfg_trace[1], cfg_change)
        /\ Len(cfg_trace) > 2 => cfg_trace[3] = cfg_trace[2]

(***************************************************************************)
(* Claims about the MOM_input ChangeSet, checked under SpecMom.            *)
(***************************************************************************)
\* C20: applying a MOM_input ChangeSet writes MOM_override only; the keys
\* written are the keys of the ChangeSet with "#override " in front, one for
\* each key of the ChangeSet and with its value, and the MOM_input file of
\* the experiment stays as it was.
C20_OnlyOverrideWritten ==
    /\ mom_files["MOM_input"] = mom_input
    /\ \A n \in 1..Len(mom_writes) :
          LET w == mom_writes[n]
          IN  /\ w.path = "MOM_override"
              /\ DOMAIN w.params = {<<"#override ", k>> : k \in DOMAIN w.change}
              /\ Cardinality(DOMAIN w.params) = Cardinality(DOMAIN w.change)
              /\ \A k \in DOMAIN w.change : w.params[<<"#override ", k>>] = w.change[k]
    /\ mom_writes # <<>> => mom_files["MOM_override"] = mom_writes[Len(mom_writes)].params

\* a ChangeSet of two keys has been applied over an earlier one
C20_Witness ==
    /\ Len(mom_writes) = 2
    /\ DOMAIN mom_writes[2].change = MomKeys
    /\ DOMAIN mom_writes[1].change # MomKeys
    /\ mom_input # <<>>

(***************************************************************************)
(* Claims about the namelist ChangeSet, checked under SpecNml.             *)
(***************************************************************************)
\* cos and sin of the angle, to a tolerance of 1e-15
CosOf(a) == CASE a = 0 -> 1 [] a = 90 -> 0 [] a = 180 -> -1
SinOf(a) == CASE a = 0 -> 0 [] a = 90 -> 1 [] a = 180 -> 0
Near(v, n) == v.near = n /\ v.err17 \in -100..100

TurningAngleExpanded ==
    LET a == Get(nml_change, "turning_angle").near
    IN  /\ "turning_angle" \notin Keys(nml_patch)
        /\ {"cosw", "sinw"} \subseteq Keys(nml_patch)
        /\ Near(Get(nml_patch, "cosw"), CosOf(a))
        /\ Near(Get(nml_patch, "sinw"), SinOf(a))

\* the original statement of C21: with turning_angle = a in the ChangeSet the
\* patch holds cosw = cos(a) and sinw = sin(a) and no turning_angle, and every
\* other parameter of the ChangeSet is in the patch with its value
C21_TurningAngleAnyChangeSet ==
    (nml_done /\ "turning_angle" \in Keys(nml_change)) =>
        /\ TurningAngleExpanded
        /\ \A k \in Keys(nml_change) \ {"turning_angle"} :
              k \in Keys(nml_patch) /\ Get(nml_patch, k) = Get(nml_change, k)

\* C21: with turning_angle = a in a ChangeSet that has no cosw or sinw of its
\* own, the patch holds cosw = cos(a*pi/180) and sinw = sin(a*pi/180) within
\* tolerance and no turning_angle, and every other parameter of the ChangeSet
\* is in the patch under its own name with its value.
C21_TurningAngleExpanded ==
    (/\ nml_done
     /\ "turning_angle" \in Keys(nml_change)
     /\ Keys(nml_change) \cap {"cosw", "sinw"} = {})
        => /\ TurningAngleExpanded
           /\ Keys(nml_patch) = (Keys(nml_change) \ {"turning_angle"}) \cup {"cosw", "sinw"}
           /\ \A k \in Keys(nml_change) \ {"turning_angle"} :
                 Get(nml_patch, k) = Get(nml_change, k)

\* turning_angle = 90 next to another parameter has been applied
C21_Witness ==
    /\ nml_done
    /\ Keys(nml_change) = {"turning_angle", "dt"}
    /\ Get(nml_change, "turning_angle") = Num(90)
    /\ Get(nml_patch, "dt") = Num(5)

\* C29: applying a namelist ChangeSet for a parameter p that the file assigns
\* keeps the number and the order of the lines and changes only the line that
\* assigns p; every other line, the assignments of parameters whose name
\* contains p and the group header included, is as it was cloned.
C29_OnlyAssignedLineChanges ==
    (/\ nml_done
     /\ Len(nml_change) = 1
     /\ nml_change[1].k # "turning_angle"
     /\ \E j \in 1..Len(nml_cloned) :
           nml_cloned[j].kind = "assign" /\ nml_cloned[j].name = nml_change[1].k)
        => /\ Len(nml_file) = Len(nml_cloned)
           /\ \A j \in 1..Len(nml_cloned) :
                 IF nml_cloned[j].kind = "assign" /\ nml_cloned[j].name = nml_change[1].k
                 THEN /\ nml_file[j].kind = "assign"
                      /\ nml_file[j].name = nml_change[1].k
                      /\ nml_file[j].v = nml_change[1].v
                 ELSE nml_file[j] = nml_cloned[j]

(***************************************************************************)
(* Claims about the restart symlink, checked under SpecLink.               *)
(***************************************************************************)
\* C22: with a start other than `rest`, a restart symlink whose target exists
\* is left as it is unless the force flag is set; the link is made or replaced
\* only when it is missing, broken or forced; with `rest` no symlink is made
\* or removed.
C22_RestartLinkIdempotent ==
    lnk_calls > 0 =>
        /\ (lnk_start # "rest" /\ IsLink(lnk_before) /\ lnk_before.resolves /\ ~lnk_force)
              => (lnk_ops = <<>> /\ lnk_dest = lnk_before)
        /\ lnk_ops # <<>>
              => /\ lnk_start # "rest"
                 /\ (~IsLink(lnk_before) \/ ~lnk_before.resolves \/ lnk_force)
        /\ lnk_start = "rest" => (lnk_ops = <<>> /\ lnk_dest = lnk_before)

(***************************************************************************)
(* Claims about the metadata description, checked under SpecDesc.          *)
(***************************************************************************)
Occurrences(piece, text) == Cardinality({i \in 1..Len(text) : text[i] = piece})

\* C23: with the same control path, branch label and restart source, any
\* number of updates gives the description that one update gives, in which
\* the note on the control run and the note on the initial condition each
\* occur exactly once.
C23_DescriptionIdempotent ==
    \A n \in 2..Len(md_trace) :
        /\ md_trace[n] = md_trace[2]
        /\ Occurrences(ControlNote("/ctrl", "main"), md_trace[n]) = 1
        /\ Occurrences(InitialConditionNote(md_restart), md_trace[n]) = 1

\* three updates of a description that held the notes of another restart
\* source
C23_Witness ==
    /\ Len(md_trace) = 4
    /\ md_restart = "rest"
    /\ Occurrences(InitialConditionNote("/ctrl/archive/restart000"), md_trace[1]) = 1
    /\ md_trace[2] # md_trace[1]

(***************************************************************************)
(* Claims about the ChangeSet under its appliers, checked under SpecApply. *)
(***************************************************************************)
\* C24: no applier adds, removes or changes a key of the ChangeSet: after the
\* configuration files of an experiment are updated, the ChangeSet that the
\* driver holds is the one the expander emitted.
C24_ChangeSetImmutable == cs_applied => cs_held = cs_emitted

(***************************************************************************)
(* Claims about the keys of a parameter block, checked under SpecGroups.   *)
(***************************************************************************)
\* the block has been gone through, or has raised
BlockEnded == gv_pos = 2 \/ gv_err # "none"

\* C25: in a namelist block, a key that starts with the name of the block and
\* stands directly above a parameter group is taken for the list of directory
\* names of that group: no error is raised, the key gives no experiments, and
\* its entries name the experiments of the group.
C25_DirectoryKeyAccepted ==
    (/\ BlockEnded
     /\ gv_block = "ice_in"
     /\ StartsWith(gv_keys[1], <<gv_block>>)
     /\ (EndsWith(gv_keys[2], <<"_nml">>) \/ EndsWith(gv_keys[2], <<"_combo">>))
     /\ Len(gv_names) = Len(GroupExpts))
        => /\ gv_err = "none"
           /\ gv_out[1] = [did |-> "skipped", names |-> <<>>]
           /\ gv_out[2] = [did |-> "expanded", names |-> gv_names]

\* what became of the j-th key of the block
KeyOutcome(j) ==
    IF j <= Len(gv_out) THEN gv_out[j].did
    ELSE IF j = Len(gv_out) + 1 /\ gv_err # "none" THEN gv_err
    ELSE "pending"

\* C30: in a nuopc.runconfig block a group whose name ends with _attributes,
\* _modelio or _combo is expanded, the key of the directory names (starting
\* with nuopc.runconfig_dirs) is skipped, and any other key raises ValueError
\* before an experiment of it is set up.
C30_RunconfigGroupNames ==
    (gv_block = "nuopc.runconfig" /\ Len(gv_names) = Len(GroupExpts)) =>
        \A j \in 1..2 :
            KeyOutcome(j) # "pending" =>
                KeyOutcome(j) =
                    (IF \/ EndsWith(gv_keys[j], <<"_attributes">>)
                        \/ EndsWith(gv_keys[j], <<"_modelio">>)
                        \/ EndsWith(gv_keys[j], <<"_combo">>)
                     THEN "expanded"
                     ELSE IF StartsWith(gv_keys[j], <<gv_block, "_dir", "s">>) THEN "skipped"
                     ELSE "ValueError")

(***************************************************************************)
(* The counter of the barrier, checked under SpecCross.                    *)
(***************************************************************************)
\* C27: tmp_count starts a cross-file block at 0, stays within
\* 0..group_count at every step, and equals group_count when the last
\* (group, file) unit of the block is processed and, in a block with counted
\* groups, at no earlier unit, whatever the values of the groups are (a
\* dict, an empty dict or None).
C27_BarrierCounterWithinGroupCount ==
    /\ pos = 0 => tmp_count = 0
    /\ tmp_count \in 0..group_count
    /\ pos = Len(block) => tmp_count = group_count
    /\ (tmp_count = group_count /\ group_count > 0) => pos = Len(block)

(***************************************************************************)
(* The run of the control experiment, checked under SpecCtrl.              *)
(***************************************************************************)
CallsOf(op) == {i \in 1..Len(ct_calls) : ct_calls[i].op = op}

\* the changes pending when the driver began; the commit clears ct_dirty
WasDirty == ct_dirty \/ CallsOf("commit") # {}

\* C26: the scheduler is queried first; when the control experiment is found
\* to be a duplicate active job there is neither a commit nor a submission;
\* otherwise the pending changes are committed before the submission call,
\* and at most one submission call is made in a run of the driver.
C26_ControlRunProtocol ==
    /\ ct_calls # <<>> => ct_calls[1].op = "qstat"
    /\ CallsOf("qstat") \subseteq {1}
    /\ ct_dup => CallsOf("commit") = {} /\ CallsOf("payu run") = {}
    /\ \A r \in CallsOf("payu run") :
          /\ ~ct_dirty
          /\ \A c \in CallsOf("commit") : c < r
    /\ (ct_pc \in {"start", "done"} /\ ~ct_dup /\ WasDirty) => CallsOf("commit") # {}
    /\ Cardinality(CallsOf("payu run")) <= 1

\* no duplicate was found: the query, then the commit of the pending
\* changes, then the one submission of the run still due
C26_Witness ==
    /\ ct_pc = "done" /\ ct_check /\ ~ct_dup
    /\ ct_calls = <<Call("qstat", 0), Call("commit", 0), Call("payu run", 1)>>

====
